---- MODULE Spec2Model ----
(***************************************************************************)
(* The group stack of paws' Ui (src/src/ui.rs): root, push, pop, the       *)
(* cursor and shape mutators and the top-of-stack getters; Ui::draw and    *)
(* the renderer's transform (src/src/renderer.rs); the group items of      *)
(* build! (src/src/build.rs).                                              *)
(*                                                                         *)
(* Numbers.  Coordinates are f32 in the source.  The model counts in half  *)
(* pixels: the integer n stands for the f32 value n / 2.  Every argument   *)
(* of a call is a whole number of pixels of small magnitude (Px), and on   *)
(* such values the f32 operations the code uses (+, -, / 2.0) are exact,   *)
(* so integer arithmetic computes what the code computes.  NaN, infinities *)
(* and rounding of large magnitudes are outside the model.                 *)
(*                                                                         *)
(* Panics.  A panic is recorded in hist together with the stack as the     *)
(* panicking call left it.  Nothing in the repository catches a panic, so  *)
(* no call follows one.                                                    *)
(***************************************************************************)
EXTENDS Integers, Sequences, FiniteSets, TLC

VARIABLES
    stack,   \* Ui.stack: the Vec<Group>, bottom first
    hist,    \* the calls made on the Ui so far, oldest first, each with its
             \* arguments, its outcome and the stack it left
    budget,  \* the number of calls the run may still make
    renderer,\* Ui.renderer: the transform of a renderer that keeps to the trait
    draws,   \* the calls of Ui::draw entered so far, oldest first, each with
             \* how far it has got
    build    \* the build! block under way: where it started in hist, the group
             \* items whose body is running, and the group items done

vars == <<stack, hist, budget, renderer, draws, build>>

-----------------------------------------------------------------------------
(* Bounds *)

\* Calls made on a new Ui (Spec).
MaxCalls == 3

\* Calls made after a setup (SpecFrame).
MaxFrameCalls == 1

\* Children pushed and popped one after another (SpecSiblings).
MaxKids == 3

\* Pushes and pops made in any order (SpecNest).
MaxNest == 3

\* Calls of align made one after another (SpecAlign).
MaxAligns == 2

\* Calls made after a setup that picks a line cap (SpecCap).
MaxCapCalls == 5

\* Calls made after a setup, in and around the callbacks of draw (SpecDraw).
MaxDrawCalls == 5

\* Calls of push, pop and space made in a parent (SpecMirror).
MaxMirrorCalls == 3

\* Calls made on a child that is resized before it is popped (SpecResize).
MaxResizeCalls == 3

\* Calls made without set_cursor, offset and pad (SpecConfined).
MaxConfinedCalls == 3

\* Calls made on a stack three deep (SpecDeep).
MaxDeepCalls == 1

\* Calls made on a Ui that is used for another frame (SpecReframe), the call
\* of root included.
MaxReframeCalls == 2

\* Calls made by a build! block (SpecBuild).
MaxBuildCalls == 5

-----------------------------------------------------------------------------
(* common.rs: Vector and Rect *)

\* A whole number of pixels, in the model's half-pixel unit.
Px(n) == 2 * n

vector(x, y) == [x |-> x, y |-> y]

point(x, y) == vector(x, y)

VAdd(a, b) == vector(a.x + b.x, a.y + b.y)

VSub(a, b) == vector(a.x - b.x, a.y - b.y)

Rect_new(position, size) == [position |-> position, size |-> size]

width(r) == r.size.x

height(r) == r.size.y

left(r) == r.position.x

top(r) == r.position.y

right(r) == r.position.x + r.size.x

bottom(r) == r.position.y + r.size.y

top_right(r) == VAdd(r.position, vector(r.size.x, 0))

bottom_left(r) == VAdd(r.position, vector(0, r.size.y))

\* f32 division by 2.0.  Only sizes are halved, and SizesWhole says they are
\* whole pixels, so the division is exact.
Half(v) == v \div 2

center_x(r) == r.position.x + Half(r.size.x)

center_y(r) == r.position.y + Half(r.size.y)

-----------------------------------------------------------------------------
(* layout.rs and renderer.rs: the enumerations *)

Layout == {"Freeform", "Horizontal", "Vertical", "HorizontalRev", "VerticalRev"}

AlignH == {"Left", "Center", "Right"}

AlignV == {"Top", "Middle", "Bottom"}

Alignment == AlignH \X AlignV

LineCap == {"Butt", "Square", "Round"}

Padding(r, b, l, t) == [right |-> r, bottom |-> b, left |-> l, top |-> t]

-----------------------------------------------------------------------------
(* ui.rs: Group, and the outcome of a call *)

Group(rect, layout, cursor, line_cap) ==
    [rect |-> rect, layout |-> layout, cursor |-> cursor, line_cap |-> line_cap]

\* The call returned v and left the stack s.
Ok(s, v) == [stack |-> s, ok |-> TRUE, val |-> v]

\* The call panicked with msg and left the stack s.
Panic(s, msg) == [stack |-> s, ok |-> FALSE, val |-> msg]

Unit == "()"

NoGroupsToRead == "no groups on the stack to read from. check your push() and pop()s"

NoGroupsToModify == "no groups on the stack left to modify. check your push() and pop()s"

RootPopped == "the root group got popped of the stack"

NoParent == "no parent group on the stack to align to"

SubtractOverflow == "attempt to subtract with overflow"

SpaceOnFreeform == "using space() on Freeform layout is forbidden"

FitOnReverse == "reverse layout containers can't be fit()ted"

\* Vec::last / Vec::last_mut on a non-empty stack.
Last(s) == s[Len(s)]

\* Mutant of SetLast: the write goes to the first entry.
SetFirst(s, g) == [s EXCEPT ![1] = g]

\* The stack with its last entry replaced by g (a write through top_mut).
SetLast(s, g) == [s EXCEPT ![Len(s)] = g]

\* Vec::pop on a non-empty stack: what remains.
Front(s) == SubSeq(s, 1, Len(s) - 1)

-----------------------------------------------------------------------------
(* ui.rs: the getters.  Each reads through Ui::top, which panics on an     *)
(* empty stack.                                                            *)

\* Ui::top: the value v read from the top group, or the panic.  v is only
\* evaluated on a stack that has a top.
ReadTop(s, v) == IF Len(s) = 0 THEN Panic(s, NoGroupsToRead) ELSE Ok(s, v)

Ui_position(s) == ReadTop(s, Last(s).rect.position)

Ui_size(s) == ReadTop(s, Last(s).rect.size)

Ui_width(s) == ReadTop(s, width(Last(s).rect))

Ui_height(s) == ReadTop(s, height(Last(s).rect))

Ui_cursor(s) == ReadTop(s, Last(s).cursor)

Ui_line_cap(s) == ReadTop(s, Last(s).line_cap)

\* Mutant of remaining_size_of: only the axis of the layout takes the cursor
\* into account, as in remaining_width and remaining_height.
remaining_size_of_one_axis(t) ==
    CASE t.layout = "Freeform" -> vector(0, 0)
      [] t.layout = "Horizontal" -> vector(t.rect.size.x - t.cursor.x, t.rect.size.y)
      [] t.layout = "Vertical" -> vector(t.rect.size.x, t.rect.size.y - t.cursor.y)
      [] t.layout = "HorizontalRev" -> vector(t.rect.size.x + t.cursor.x, t.rect.size.y)
      [] t.layout = "VerticalRev" -> vector(t.rect.size.x, t.rect.size.y + t.cursor.y)

remaining_size_of(t) ==
    CASE t.layout = "Freeform" -> vector(0, 0)
      [] t.layout \in {"Horizontal", "Vertical"} -> VSub(t.rect.size, t.cursor)
      [] t.layout \in {"HorizontalRev", "VerticalRev"} -> VAdd(t.rect.size, t.cursor)

\* Mutant of remaining_width_of: HorizontalRev subtracts the cursor.
remaining_width_of_rev_sub(t) ==
    CASE t.layout = "Freeform" -> 0
      [] t.layout \in {"Horizontal", "HorizontalRev"} -> width(t.rect) - t.cursor.x
      [] t.layout \in {"Vertical", "VerticalRev"} -> width(t.rect)

remaining_width_of(t) ==
    CASE t.layout = "Freeform" -> 0
      [] t.layout = "Horizontal" -> width(t.rect) - t.cursor.x
      [] t.layout = "Vertical" -> width(t.rect)
      [] t.layout = "HorizontalRev" -> width(t.rect) + t.cursor.x
      [] t.layout = "VerticalRev" -> width(t.rect)

\* Mutant of remaining_height_of: Vertical leaves the cursor out.
remaining_height_of_whole(t) ==
    CASE t.layout = "Freeform" -> 0
      [] t.layout \in {"Horizontal", "Vertical", "HorizontalRev"} -> height(t.rect)
      [] t.layout = "VerticalRev" -> height(t.rect) + t.cursor.y

remaining_height_of(t) ==
    CASE t.layout = "Freeform" -> 0
      [] t.layout = "Horizontal" -> height(t.rect)
      [] t.layout = "Vertical" -> height(t.rect) - t.cursor.y
      [] t.layout = "HorizontalRev" -> height(t.rect)
      [] t.layout = "VerticalRev" -> height(t.rect) + t.cursor.y

remaining_size(s) == ReadTop(s, remaining_size_of(Last(s)))

remaining_width(s) == ReadTop(s, remaining_width_of(Last(s)))

remaining_height(s) == ReadTop(s, remaining_height_of(Last(s)))

Getters ==
    {"position", "size", "width", "height", "remaining_size", "remaining_width",
     "remaining_height", "cursor", "line_cap"}

\* The getter named q, applied to the stack s.
Get(s, q) ==
    CASE q = "position" -> Ui_position(s)
      [] q = "size" -> Ui_size(s)
      [] q = "width" -> Ui_width(s)
      [] q = "height" -> Ui_height(s)
      [] q = "remaining_size" -> remaining_size(s)
      [] q = "remaining_width" -> remaining_width(s)
      [] q = "remaining_height" -> remaining_height(s)
      [] q = "cursor" -> Ui_cursor(s)
      [] q = "line_cap" -> Ui_line_cap(s)

-----------------------------------------------------------------------------
(* ui.rs: stack manipulation *)

\* Mutant of root: the stack is not cleared.
root_keeps(s, size, layout) ==
    Ok(Append(s, Group(Rect_new(point(0, 0), size), layout, vector(0, 0), "Butt")), Unit)

\* Mutant of root: the stack is cleared and no group is pushed.
root_clears(s, size, layout) == Ok(<<>>, Unit)

\* Mutant of root: the new root group takes the line cap of the group that
\* was on top, as a pushed group does.
root_inherits(s, size, layout) ==
    Ok(<<Group(Rect_new(point(0, 0), size), layout, vector(0, 0),
               IF Len(s) = 0 THEN "Butt" ELSE Last(s).line_cap)>>, Unit)

root(s, size, layout) ==
    Ok(<<Group(Rect_new(point(0, 0), size), layout, vector(0, 0), "Butt")>>, Unit)

\* Mutant of push_position: the cursor of the group t is left out.
push_position_no_cursor(t, size) ==
    CASE t.layout \in {"Freeform", "Horizontal", "Vertical"} -> t.rect.position
      [] t.layout = "HorizontalRev" -> VSub(top_right(t.rect), point(size.x, 0))
      [] t.layout = "VerticalRev" -> VSub(bottom_left(t.rect), point(0, size.y))

\* Mutant of push_position: under the reversed layouts the size of the new
\* group is not taken off, so that the group starts at the far edge.
push_position_rev_outside(t, size) ==
    CASE t.layout \in {"Freeform", "Horizontal", "Vertical"} ->
             VAdd(t.rect.position, t.cursor)
      [] t.layout = "HorizontalRev" -> VAdd(top_right(t.rect), t.cursor)
      [] t.layout = "VerticalRev" -> VAdd(bottom_left(t.rect), t.cursor)

\* The position push gives a group of the given size under the group t.
push_position(t, size) ==
    CASE t.layout \in {"Freeform", "Horizontal", "Vertical"} ->
             VAdd(t.rect.position, t.cursor)
      [] t.layout = "HorizontalRev" ->
             VSub(VAdd(top_right(t.rect), t.cursor), point(size.x, 0))
      [] t.layout = "VerticalRev" ->
             VSub(VAdd(bottom_left(t.rect), t.cursor), point(0, size.y))

\* Mutant of push_group: the position follows the layout of the new group
\* instead of the layout of the group it is pushed into.
push_group_own_layout(t, size, layout) ==
    Group(Rect_new(push_position([t EXCEPT !.layout = layout], size), size),
          layout, point(0, 0), t.line_cap)

\* The group push appends under the group t: `..top` copies t's line cap.
push_group(t, size, layout) ==
    Group(Rect_new(push_position(t, size), size), layout, point(0, 0), t.line_cap)

\* Mutant of push: the new group replaces the top instead of going above it.
push_replaces(s, size, layout) ==
    IF Len(s) = 0
    THEN Panic(s, NoGroupsToRead)
    ELSE Ok(SetLast(s, push_group(Last(s), size, layout)), Unit)

push(s, size, layout) ==
    IF Len(s) = 0
    THEN Panic(s, NoGroupsToRead)
    ELSE Ok(Append(s, push_group(Last(s), size, layout)), Unit)

\* Mutant of pop_cursor: the reversed layouts advance like the forward ones.
pop_cursor_rev_adds(t, group) ==
    CASE t.layout = "Freeform" -> t.cursor
      [] t.layout \in {"Horizontal", "HorizontalRev"} ->
             vector(t.cursor.x + width(group.rect), t.cursor.y)
      [] t.layout \in {"Vertical", "VerticalRev"} ->
             vector(t.cursor.x, t.cursor.y + height(group.rect))

\* Mutant of pop_cursor: Vertical advances by the width of the popped group.
pop_cursor_v_width(t, group) ==
    CASE t.layout = "Freeform" -> t.cursor
      [] t.layout = "Horizontal" -> vector(t.cursor.x + width(group.rect), t.cursor.y)
      [] t.layout = "Vertical" -> vector(t.cursor.x, t.cursor.y + width(group.rect))
      [] t.layout = "HorizontalRev" -> vector(t.cursor.x - width(group.rect), t.cursor.y)
      [] t.layout = "VerticalRev" -> vector(t.cursor.x, t.cursor.y - height(group.rect))

\* Mutant of pop_cursor: Horizontal advances by the height of the popped group.
pop_cursor_h_height(t, group) ==
    CASE t.layout = "Freeform" -> t.cursor
      [] t.layout = "Horizontal" -> vector(t.cursor.x + height(group.rect), t.cursor.y)
      [] t.layout = "Vertical" -> vector(t.cursor.x, t.cursor.y + height(group.rect))
      [] t.layout = "HorizontalRev" -> vector(t.cursor.x - width(group.rect), t.cursor.y)
      [] t.layout = "VerticalRev" -> vector(t.cursor.x, t.cursor.y - height(group.rect))

\* The cursor pop leaves in the group t once the popped group has gone.
\* Mutant of pop_cursor: the reversed layouts do not advance.
pop_cursor_rev_still(t, group) ==
    CASE t.layout \in {"Freeform", "HorizontalRev", "VerticalRev"} -> t.cursor
      [] t.layout = "Horizontal" -> vector(t.cursor.x + width(group.rect), t.cursor.y)
      [] t.layout = "Vertical" -> vector(t.cursor.x, t.cursor.y + height(group.rect))

\* Mutant of pop_cursor: a Freeform group advances like a Horizontal one.
pop_cursor_freeform_moves(t, group) ==
    CASE t.layout \in {"Freeform", "Horizontal"} ->
             vector(t.cursor.x + width(group.rect), t.cursor.y)
      [] t.layout = "Vertical" -> vector(t.cursor.x, t.cursor.y + height(group.rect))
      [] t.layout = "HorizontalRev" -> vector(t.cursor.x - width(group.rect), t.cursor.y)
      [] t.layout = "VerticalRev" -> vector(t.cursor.x, t.cursor.y - height(group.rect))

pop_cursor(t, group) ==
    CASE t.layout = "Freeform" -> t.cursor
      [] t.layout = "Horizontal" -> vector(t.cursor.x + width(group.rect), t.cursor.y)
      [] t.layout = "Vertical" -> vector(t.cursor.x, t.cursor.y + height(group.rect))
      [] t.layout = "HorizontalRev" -> vector(t.cursor.x - width(group.rect), t.cursor.y)
      [] t.layout = "VerticalRev" -> vector(t.cursor.x, t.cursor.y - height(group.rect))

\* Mutant of pop: popping the root returns normally.
pop_lenient(s) ==
    IF Len(s) = 0
    THEN Panic(s, RootPopped)
    ELSE LET group == Last(s)
             rest == Front(s)
         IN  IF Len(rest) = 0
             THEN Ok(rest, Unit)
             ELSE Ok(SetLast(rest, [Last(rest) EXCEPT !.cursor = pop_cursor(Last(rest), group)]),
                     Unit)

\* Mutant of pop: the group that becomes the top takes the line cap of the
\* group that was popped.
pop_cap_upward(s) ==
    IF Len(s) = 0
    THEN Panic(s, RootPopped)
    ELSE LET group == Last(s)
             rest == Front(s)
         IN  IF Len(rest) = 0
             THEN Panic(rest, NoGroupsToModify)
             ELSE Ok(SetLast(rest, [Last(rest) EXCEPT !.cursor = pop_cursor(Last(rest), group),
                                                      !.line_cap = group.line_cap]),
                     Unit)

\* Vec::pop comes first: when only the root is left it is removed, and then
\* top_mut panics on the stack that is now empty.
pop(s) ==
    IF Len(s) = 0
    THEN Panic(s, RootPopped)
    ELSE LET group == Last(s)
             rest == Front(s)
         IN  IF Len(rest) = 0
             THEN Panic(rest, NoGroupsToModify)
             ELSE Ok(SetLast(rest, [Last(rest) EXCEPT !.cursor = pop_cursor(Last(rest), group)]),
                     Unit)

-----------------------------------------------------------------------------
(* ui.rs: group manipulation.  Each writes through Ui::top_mut, which      *)
(* panics on an empty stack.                                               *)

set_cursor(s, new_cursor) ==
    IF Len(s) = 0
    THEN Panic(s, NoGroupsToModify)
    ELSE Ok(SetLast(s, [Last(s) EXCEPT !.cursor = new_cursor]), Unit)

offset(s, by) ==
    IF Len(s) = 0
    THEN Panic(s, NoGroupsToModify)
    ELSE Ok(SetLast(s, [Last(s) EXCEPT !.cursor = VAdd(@, by)]), Unit)

\* Mutant of pad_rect: a size that would go below zero stops at zero.
pad_rect_clamped(rect, padding) ==
    LET w == rect.size.x - (padding.left + padding.right)
        h == rect.size.y - (padding.top + padding.bottom)
    IN  Rect_new(vector(rect.position.x + padding.left, rect.position.y + padding.top),
                 vector(IF w < 0 THEN 0 ELSE w, IF h < 0 THEN 0 ELSE h))

\* Mutant of pad_rect: the rectangle is moved and keeps its size.
pad_rect_moved(rect, padding) ==
    Rect_new(vector(rect.position.x + padding.left, rect.position.y + padding.top),
             rect.size)

\* The rectangle pad leaves.
pad_rect(rect, padding) ==
    Rect_new(vector(rect.position.x + padding.left, rect.position.y + padding.top),
             vector(rect.size.x - (padding.left + padding.right),
                    rect.size.y - (padding.top + padding.bottom)))

pad(s, padding) ==
    IF Len(s) = 0
    THEN Panic(s, NoGroupsToModify)
    ELSE Ok(SetLast(s, [Last(s) EXCEPT !.rect = pad_rect(@, padding)]), Unit)

\* Mutant of align_position: the offset inside the parent is added to the
\* position the subject has, as if that position were relative to the parent.
align_position_relative(parent, subject, alignment) ==
    vector(CASE alignment[1] = "Left" -> left(subject)
             [] alignment[1] = "Center" ->
                    left(subject) + Half(width(parent)) - Half(width(subject))
             [] alignment[1] = "Right" -> left(subject) + width(parent) - width(subject),
           CASE alignment[2] = "Top" -> top(subject)
             [] alignment[2] = "Middle" ->
                    top(subject) + Half(height(parent)) - Half(height(subject))
             [] alignment[2] = "Bottom" -> top(subject) + height(parent) - height(subject))

\* Mutant of align_position: Right and Bottom put the subject's near edge, not
\* its far edge, on the parent's far edge.
align_position_far_edge(parent, subject, alignment) ==
    vector(CASE alignment[1] = "Left" -> left(parent)
             [] alignment[1] = "Center" -> center_x(parent) - Half(width(subject))
             [] alignment[1] = "Right" -> right(parent),
           CASE alignment[2] = "Top" -> top(parent)
             [] alignment[2] = "Middle" -> center_y(parent) - Half(height(subject))
             [] alignment[2] = "Bottom" -> bottom(parent))

\* The position align gives the rectangle subject inside the rectangle parent.
align_position(parent, subject, alignment) ==
    vector(CASE alignment[1] = "Left" -> left(parent)
             [] alignment[1] = "Center" -> center_x(parent) - Half(width(subject))
             [] alignment[1] = "Right" -> right(parent) - width(subject),
           CASE alignment[2] = "Top" -> top(parent)
             [] alignment[2] = "Middle" -> center_y(parent) - Half(height(subject))
             [] alignment[2] = "Bottom" -> bottom(parent) - height(subject))

\* Mutant of align: the index of the parent saturates at 0, so that a group
\* alone on the stack is aligned to itself.
align_saturating(s, alignment, overflow_checks) ==
    IF Len(s) = 0
    THEN Panic(s, IF overflow_checks THEN SubtractOverflow ELSE NoParent)
    ELSE LET parent == s[IF Len(s) = 1 THEN 1 ELSE Len(s) - 1].rect
             subject == Last(s).rect
         IN  Ok(SetLast(s, [Last(s) EXCEPT
                               !.rect.position = align_position(parent, subject, alignment)]),
                Unit)

\* `self.stack.len() - 2` is a usize subtraction.  With fewer than two groups
\* it panics where overflow is checked (overflow_checks), and otherwise wraps
\* to an index Vec::get has nothing at, so that the expect panics.
align(s, alignment, overflow_checks) ==
    IF Len(s) < 2
    THEN Panic(s, IF overflow_checks THEN SubtractOverflow ELSE NoParent)
    ELSE LET parent == s[Len(s) - 1].rect
             subject == Last(s).rect
         IN  Ok(SetLast(s, [Last(s) EXCEPT
                               !.rect.position = align_position(parent, subject, alignment)]),
                Unit)

\* Mutant of space_cursor: the reversed layouts add the amount.
space_cursor_rev_adds(t, amount) ==
    CASE t.layout \in {"Horizontal", "HorizontalRev"} -> vector(t.cursor.x + amount, t.cursor.y)
      [] t.layout \in {"Vertical", "VerticalRev"} -> vector(t.cursor.x, t.cursor.y + amount)

\* The cursor space leaves in a group t that is not Freeform.
space_cursor(t, amount) ==
    CASE t.layout = "Horizontal" -> vector(t.cursor.x + amount, t.cursor.y)
      [] t.layout = "Vertical" -> vector(t.cursor.x, t.cursor.y + amount)
      [] t.layout = "HorizontalRev" -> vector(t.cursor.x - amount, t.cursor.y)
      [] t.layout = "VerticalRev" -> vector(t.cursor.x, t.cursor.y - amount)

\* Mutant of space: on a Freeform group it moves the cursor along x before it
\* panics.
space_moves_then_panics(s, amount) ==
    IF Len(s) = 0
    THEN Panic(s, NoGroupsToModify)
    ELSE IF Last(s).layout = "Freeform"
    THEN Panic(SetLast(s, [Last(s) EXCEPT !.cursor.x = @ + amount]), SpaceOnFreeform)
    ELSE Ok(SetLast(s, [Last(s) EXCEPT !.cursor = space_cursor(Last(s), amount)]), Unit)

space(s, amount) ==
    IF Len(s) = 0
    THEN Panic(s, NoGroupsToModify)
    ELSE IF Last(s).layout = "Freeform"
    THEN Panic(s, SpaceOnFreeform)
    ELSE Ok(SetLast(s, [Last(s) EXCEPT !.cursor = space_cursor(Last(s), amount)]), Unit)

\* Mutant of fit_size: every layout takes both axes from the cursor.
fit_size_both_axes(t) == t.cursor

\* The size fit leaves in a group t that is not reversed.
fit_size(t) ==
    CASE t.layout = "Freeform" -> t.cursor
      [] t.layout = "Horizontal" -> vector(t.cursor.x, t.rect.size.y)
      [] t.layout = "Vertical" -> vector(t.rect.size.x, t.cursor.y)

\* Mutant of fit: on an empty stack it does nothing and returns.
fit_lenient(s) ==
    IF Len(s) = 0
    THEN Ok(s, Unit)
    ELSE IF Last(s).layout \in {"HorizontalRev", "VerticalRev"}
    THEN Panic(s, FitOnReverse)
    ELSE Ok(SetLast(s, [Last(s) EXCEPT !.rect.size = fit_size(Last(s))]), Unit)

\* Mutant of fit: the cursor is taken back to (0,0) once the size is set.
fit_resets_cursor(s) ==
    IF Len(s) = 0
    THEN Panic(s, NoGroupsToModify)
    ELSE IF Last(s).layout \in {"HorizontalRev", "VerticalRev"}
    THEN Panic(s, FitOnReverse)
    ELSE Ok(SetLast(s, [Last(s) EXCEPT !.rect.size = fit_size(Last(s)),
                                       !.cursor = vector(0, 0)]), Unit)

fit(s) ==
    IF Len(s) = 0
    THEN Panic(s, NoGroupsToModify)
    ELSE IF Last(s).layout \in {"HorizontalRev", "VerticalRev"}
    THEN Panic(s, FitOnReverse)
    ELSE Ok(SetLast(s, [Last(s) EXCEPT !.rect.size = fit_size(Last(s))]), Unit)

set_line_cap(s, new_line_cap) ==
    IF Len(s) = 0
    THEN Panic(s, NoGroupsToModify)
    ELSE Ok(SetLast(s, [Last(s) EXCEPT !.line_cap = new_line_cap]), Unit)

-----------------------------------------------------------------------------
(* renderer.rs: a Renderer that does what the trait says of push, pop and  *)
(* translate.  Its transform is a translation: matrix is the translation   *)
(* in force, saved the translations that push has put aside, oldest first. *)

\* The renderer a Ui is created with: nothing translated, nothing saved.
NewRenderer == [matrix |-> vector(0, 0), saved |-> <<>>]

\* "Pushes the current transform matrix ... onto a stack."
Renderer_push(r) == [r EXCEPT !.saved = Append(@, r.matrix)]

\* "Pops the topmost transform matrix ... off the stack and overwrites the
\* current transform matrix with it."  The trait says nothing of a pop with
\* nothing saved; no run of the model makes one.
Renderer_pop(r) == [matrix |-> Last(r.saved), saved |-> Front(r.saved)]

\* "Translates the transform matrix by the given vector."
Renderer_translate(r, vec) == [r EXCEPT !.matrix = VAdd(@, vec)]

-----------------------------------------------------------------------------
(* ui.rs: Ui::draw.  The callback do_draw is run between the two halves of *)
(* draw, and makes calls of its own on the Ui it is handed.                *)

\* Mutant of draw_enter: the renderer is translated before its transform is
\* pushed.
draw_enter_translate_first(s, r) ==
    IF Len(s) = 0
    THEN [ok |-> FALSE, val |-> NoGroupsToRead, stack |-> s, renderer |-> r]
    ELSE [ok |-> TRUE, val |-> Unit, stack |-> s,
          renderer |-> Renderer_push(Renderer_translate(r, Last(s).rect.position))]

\* Ui::draw up to the call of do_draw: the outcome, and the renderer it
\* leaves.  top() panics on an empty stack before the renderer is touched.
draw_enter(s, r) ==
    IF Len(s) = 0
    THEN [ok |-> FALSE, val |-> NoGroupsToRead, stack |-> s, renderer |-> r]
    ELSE [ok |-> TRUE, val |-> Unit, stack |-> s,
          renderer |-> Renderer_translate(Renderer_push(r), Last(s).rect.position)]

\* Ui::draw once do_draw has returned: the renderer it leaves.
draw_leave(r) == Renderer_pop(r)

\* What draws keeps of a call of draw that has entered its callback: where
\* the call is in hist, the translation it read, and the renderer before the
\* call and at the start of the callback.  ended (the renderer when the
\* callback ended) and after (the renderer when draw was left) are filled in
\* when the call is left.
DrawEntered(s, r, at) ==
    [at |-> at,
     translation |-> Last(s).rect.position,
     before |-> r,
     entered |-> draw_enter(s, r).renderer,
     status |-> "open",
     ended |-> draw_enter(s, r).renderer,
     after |-> draw_enter(s, r).renderer]

\* The calls of draw whose callback has not ended, and the innermost of them.
OpenDraws(ds) == {k \in 1..Len(ds) : ds[k].status = "open"}

Innermost(ds) == CHOOSE k \in OpenDraws(ds) : \A j \in OpenDraws(ds) : j <= k

-----------------------------------------------------------------------------
(* Calls.  A call is a record: the method's name and its arguments.        *)

C_root(size, layout) == [op |-> "root", size |-> size, layout |-> layout]

C_push(size, layout) == [op |-> "push", size |-> size, layout |-> layout]

C_pop == [op |-> "pop"]

C_set_cursor(new_cursor) == [op |-> "set_cursor", new_cursor |-> new_cursor]

C_offset(by) == [op |-> "offset", by |-> by]

C_pad(padding) == [op |-> "pad", padding |-> padding]

C_align(alignment, overflow_checks) ==
    [op |-> "align", alignment |-> alignment, overflow_checks |-> overflow_checks]

C_space(amount) == [op |-> "space", amount |-> amount]

C_fit == [op |-> "fit"]

C_set_line_cap(new_line_cap) == [op |-> "set_line_cap", new_line_cap |-> new_line_cap]

C_get(q) == [op |-> q]

\* The outcome of the call c made on the stack s.
Apply(s, c) ==
    CASE c.op = "root" -> root(s, c.size, c.layout)
      [] c.op = "push" -> push(s, c.size, c.layout)
      [] c.op = "pop" -> pop(s)
      [] c.op = "set_cursor" -> set_cursor(s, c.new_cursor)
      [] c.op = "offset" -> offset(s, c.by)
      [] c.op = "pad" -> pad(s, c.padding)
      [] c.op = "align" -> align(s, c.alignment, c.overflow_checks)
      [] c.op = "space" -> space(s, c.amount)
      [] c.op = "fit" -> fit(s)
      [] c.op = "set_line_cap" -> set_line_cap(s, c.new_line_cap)
      [] c.op \in Getters -> Get(s, c.op)

\* The entry hist keeps of the call c made on the stack s.
Entry(s, c) ==
    LET r == Apply(s, c)
    IN  [call |-> c, ok |-> r.ok, val |-> r.val, stack |-> r.stack]

\* Ui::new: no group on the stack.
New == [call |-> [op |-> "new"], ok |-> TRUE, val |-> Unit, stack |-> <<>>]

\* The history of a new Ui on which the calls cs were made in order, up to
\* the first panic.
RECURSIVE Run(_)
Run(cs) ==
    IF cs = <<>>
    THEN <<New>>
    ELSE LET h == Run(Front(cs))
         IN  IF Last(h).ok THEN Append(h, Entry(Last(h).stack, Last(cs))) ELSE h

\* The history h, continued with the calls cs up to the first panic.
RECURSIVE RunOn(_, _)
RunOn(h, cs) ==
    IF cs = <<>>
    THEN h
    ELSE LET g == RunOn(h, Front(cs))
         IN  IF Last(g).ok THEN Append(g, Entry(Last(g).stack, Last(cs))) ELSE g

-----------------------------------------------------------------------------
(* build.rs: build!.  `group $ui => $args $then $($rest)*` expands to      *)
(* `$ui.push $args;`, the expansion of $then, `$ui.pop();` and the         *)
(* expansion of the rest.                                                  *)

\* What a group item calls before its body.
build_group_before(size, layout) == <<C_push(size, layout)>>

\* Mutant of build_group_after: nothing is called after the body.
build_group_after_nothing == <<>>

\* What a group item calls after its body.
build_group_after == <<C_pop>>

\* No build! block under way.
NoBuild == [base |-> 0, open |-> <<>>, done |-> <<>>]

-----------------------------------------------------------------------------
(* The arguments the calls are made with *)

Sizes == {vector(Px(4), Px(2)), vector(Px(1), Px(3))}

Cursors == {vector(Px(2), Px(-1))}

Offsets == {vector(Px(1), Px(1))}

Amounts == {Px(2), Px(-1)}

Paddings == {Padding(Px(1), Px(2), Px(3), Px(4))}

\* The size of the root group of a setup that nests a group in it.
FrameSize == vector(Px(9), Px(8))

\* What a setup does to a group before it pushes a group into it, and what it
\* does to the last group it pushes.
ParentTweaks ==
    {<<>>}
        \cup {<<C_set_cursor(c)>> : c \in Cursors}
        \cup {<<C_pad(p), C_set_cursor(c)>> : p \in Paddings, c \in Cursors}

TopTweaks ==
    {<<>>}
        \cup {<<C_set_cursor(c)>> : c \in Cursors}
        \cup {<<C_pad(p)>> : p \in Paddings}

\* Setups: the calls that open a frame and leave one group, or two nested
\* groups, on the stack.
Setups1 ==
    {<<C_root(size, layout)>> \o tw :
        size \in Sizes, layout \in Layout, tw \in TopTweaks}

Setups2 ==
    {<<C_root(FrameSize, l1)>> \o tw1 \o <<C_push(size, l2)>> \o tw2 :
        l1 \in Layout, tw1 \in ParentTweaks, size \in Sizes, l2 \in Layout,
        tw2 \in TopTweaks}

Setups == Setups1 \cup Setups2

\* The setups of SpecSiblings and SpecNest: a root group of any layout, or a
\* group of any layout nested away from the origin, with or without a cursor
\* that has moved.
ParentSetups ==
    {<<C_root(FrameSize, layout)>> \o tw :
        layout \in Layout, tw \in {<<>>} \cup {<<C_set_cursor(c)>> : c \in Cursors}}
        \cup
    {<<C_root(FrameSize, "Freeform"), C_set_cursor(c), C_push(FrameSize, layout)>> \o tw :
        c \in Cursors, layout \in Layout,
        tw \in {<<>>} \cup {<<C_set_cursor(d)>> : d \in Cursors}}

\* The setups of SpecNest: a root group of any layout, or a group nested in it.
NestSetups ==
    {<<C_root(FrameSize, layout)>> : layout \in Layout}
        \cup
    {<<C_root(FrameSize, layout), C_push(FrameSize, layout)>> : layout \in Layout}

\* The setups of SpecAlign: a group nested in the root group, either of them
\* padded or not, with or without a cursor that has moved.
AlignSetups ==
    {<<C_root(FrameSize, "Freeform")>> \o tw1 \o <<C_push(size, "Freeform")>> \o tw2 :
        tw1 \in ParentTweaks, size \in Sizes, tw2 \in TopTweaks}

\* The setups of SpecCap: a root group with the line cap root gives it, or
\* with one set afterwards.
CapSetups ==
    {<<C_root(FrameSize, "Vertical")>> \o tw :
        tw \in {<<>>} \cup {<<C_set_line_cap(cap)>> : cap \in LineCap}}

\* A frame of a window of 800 by 600 pixels: the methods called, in order.  A
\* bar is pushed into the root group and popped; a panel is pushed, one item
\* is pushed into it and popped, and the panel is fitted to it.
Walk == <<"root", "push", "pop", "push", "push", "pop", "fit">>

\* The sizes of the window, the bar, the panel and the item.
WalkSizes ==
    {vector(Px(800), Px(600)), vector(Px(800), Px(50)), vector(Px(800), Px(550)),
     vector(Px(800), Px(20))}

\* The setups of SpecDraw: a root group, or a group nested away from the
\* origin.
DrawSetups ==
    {<<C_root(FrameSize, "Vertical")>>}
        \cup
    {<<C_root(FrameSize, "Freeform"), C_set_cursor(c), C_push(size, layout)>> :
        c \in Cursors, size \in Sizes, layout \in {"Vertical", "HorizontalRev"}}

\* The setups of SpecConfined: a root group of any layout, or a group of any
\* layout pushed into it.
ConfinedSetups ==
    {<<C_root(FrameSize, l1)>> : l1 \in Layout}
        \cup {<<C_root(FrameSize, l1), C_push(vector(Px(4), Px(2)), l2)>> :
                l1 \in Layout, l2 \in Layout}

\* The setups of SpecResize: a child of any layout pushed into one of
\* ParentSetups.
ResizeSetups ==
    {cs \o <<C_push(size, layout)>> :
        cs \in ParentSetups, size \in {FrameSize}, layout \in Layout}

\* The setups of SpecDeep: three nested groups, the lower two away from the
\* origin, padded or with a moved cursor, the top one of any layout.
DeepSetups ==
    {<<C_root(FrameSize, "Freeform"), C_set_cursor(c), C_push(FrameSize, l2), C_pad(p),
       C_push(size, l3)>> \o tw :
        c \in Cursors, l2 \in {"Freeform", "Horizontal", "VerticalRev"}, p \in Paddings,
        size \in {vector(Px(4), Px(2))}, l3 \in Layout, tw \in TopTweaks}

\* The setups of SpecReframe, what earlier frames left behind: nothing (a new
\* Ui), a root group with or without padding or a moved cursor, or two nested
\* groups, padded, with moved cursors and another line cap.
ReframeSetups ==
    {<<>>}
        \cup {<<C_root(size, "Horizontal")>> \o tw : size \in Sizes, tw \in TopTweaks}
        \cup {<<C_root(FrameSize, "VerticalRev"), C_pad(p), C_set_cursor(c),
                C_push(size, "Freeform"), C_set_line_cap("Round")>> :
                    p \in Paddings, c \in Cursors, size \in Sizes}

\* The setups of SpecBuild: a root group as in the tests of build.rs, or a
\* group nested in it.
BuildSetups ==
    {<<C_root(FrameSize, layout)>> : layout \in {"Vertical", "Freeform"}}
        \cup {<<C_root(FrameSize, "Vertical"), C_push(FrameSize, "Horizontal")>>}

-----------------------------------------------------------------------------
(* The calls, as actions.  A call is made on a Ui that has not panicked.   *)

\* Whether the run may make a call.
CanCall == Last(hist).ok /\ budget > 0

\* hist once the call c has been made.
Logged(c) == Append(hist, Entry(stack, c))

Root ==
    \E size \in Sizes, layout \in Layout :
        /\ CanCall
        /\ stack' = Apply(stack, C_root(size, layout)).stack
        /\ hist' = Logged(C_root(size, layout))
        /\ budget' = budget - 1
        /\ UNCHANGED <<renderer, draws, build>>

Push ==
    \E size \in Sizes, layout \in Layout :
        /\ CanCall
        /\ stack' = Apply(stack, C_push(size, layout)).stack
        /\ hist' = Logged(C_push(size, layout))
        /\ budget' = budget - 1
        /\ UNCHANGED <<renderer, draws, build>>

Pop ==
    /\ CanCall
    /\ stack' = Apply(stack, C_pop).stack
    /\ hist' = Logged(C_pop)
    /\ budget' = budget - 1
    /\ UNCHANGED <<renderer, draws, build>>

SetCursor ==
    \E new_cursor \in Cursors :
        /\ CanCall
        /\ stack' = Apply(stack, C_set_cursor(new_cursor)).stack
        /\ hist' = Logged(C_set_cursor(new_cursor))
        /\ budget' = budget - 1
        /\ UNCHANGED <<renderer, draws, build>>

Offset ==
    \E by \in Offsets :
        /\ CanCall
        /\ stack' = Apply(stack, C_offset(by)).stack
        /\ hist' = Logged(C_offset(by))
        /\ budget' = budget - 1
        /\ UNCHANGED <<renderer, draws, build>>

Pad ==
    \E padding \in Paddings :
        /\ CanCall
        /\ stack' = Apply(stack, C_pad(padding)).stack
        /\ hist' = Logged(C_pad(padding))
        /\ budget' = budget - 1
        /\ UNCHANGED <<renderer, draws, build>>

Align ==
    \E alignment \in Alignment, overflow_checks \in BOOLEAN :
        /\ CanCall
        /\ stack' = Apply(stack, C_align(alignment, overflow_checks)).stack
        /\ hist' = Logged(C_align(alignment, overflow_checks))
        /\ budget' = budget - 1
        /\ UNCHANGED <<renderer, draws, build>>

Space ==
    \E amount \in Amounts :
        /\ CanCall
        /\ stack' = Apply(stack, C_space(amount)).stack
        /\ hist' = Logged(C_space(amount))
        /\ budget' = budget - 1
        /\ UNCHANGED <<renderer, draws, build>>

Fit ==
    /\ CanCall
    /\ stack' = Apply(stack, C_fit).stack
    /\ hist' = Logged(C_fit)
    /\ budget' = budget - 1
    /\ UNCHANGED <<renderer, draws, build>>

SetLineCap ==
    \E new_line_cap \in LineCap :
        /\ CanCall
        /\ stack' = Apply(stack, C_set_line_cap(new_line_cap)).stack
        /\ hist' = Logged(C_set_line_cap(new_line_cap))
        /\ budget' = budget - 1
        /\ UNCHANGED <<renderer, draws, build>>

Query ==
    \E q \in Getters :
        /\ CanCall
        /\ stack' = Apply(stack, C_get(q)).stack
        /\ hist' = Logged(C_get(q))
        /\ budget' = budget - 1
        /\ UNCHANGED <<renderer, draws, build>>

\* push of a Horizontal group, of any of the sizes.
PushChild ==
    \E size \in Sizes :
        /\ CanCall
        /\ stack' = Apply(stack, C_push(size, "Horizontal")).stack
        /\ hist' = Logged(C_push(size, "Horizontal"))
        /\ budget' = budget - 1
        /\ UNCHANGED <<renderer, draws, build>>

Init ==
    /\ hist = <<New>>
    /\ stack = <<>>
    /\ budget = MaxCalls
    /\ renderer = NewRenderer
    /\ draws = <<>>
    /\ build = NoBuild

Next ==
    \/ Root
    \/ Push
    \/ Pop
    \/ SetCursor
    \/ Offset
    \/ Pad
    \/ Align
    \/ Space
    \/ Fit
    \/ SetLineCap
    \/ Query

Spec == Init /\ [][Next]_vars

\* A frame under way: the Ui after one of Setups, and then any calls.
InitFrame ==
    \E cs \in Setups :
        /\ hist = Run(cs)
        /\ stack = Last(Run(cs)).stack
        /\ budget = MaxFrameCalls
        /\ renderer = NewRenderer
        /\ draws = <<>>
        /\ build = NoBuild

SpecFrame == InitFrame /\ [][Next]_vars

\* Siblings: after one of ParentSetups, children are pushed and popped one
\* after another into the group on top, which may then be fitted to them.
InitSiblings ==
    \E cs \in ParentSetups :
        /\ hist = Run(cs)
        /\ stack = Last(Run(cs)).stack
        /\ budget = 2 * MaxKids
        /\ renderer = NewRenderer
        /\ draws = <<>>
        /\ build = NoBuild

\* The budget is spent in pairs: a child is pushed when an even number of
\* calls is left, and popped by the call after.
PushKid == budget % 2 = 0 /\ Push

PopKid == budget % 2 = 1 /\ Pop

\* The group is fitted when no child of it is open; the call after pops it.
FitKids == budget % 2 = 0 /\ Fit

NextSiblings == PushKid \/ PopKid \/ FitKids

SpecSiblings == InitSiblings /\ [][NextSiblings]_vars

\* Nesting: after one of NestSetups, pushes and pops in any order.
InitNest ==
    \E cs \in NestSetups :
        /\ hist = Run(cs)
        /\ stack = Last(Run(cs)).stack
        /\ budget = MaxNest
        /\ renderer = NewRenderer
        /\ draws = <<>>
        /\ build = NoBuild

NextNest == Push \/ Pop

SpecNest == InitNest /\ [][NextNest]_vars

\* Aligning: after one of AlignSetups, the group on top is aligned, and
\* aligned again.
InitAlign ==
    \E cs \in AlignSetups :
        /\ hist = Run(cs)
        /\ stack = Last(Run(cs)).stack
        /\ budget = MaxAligns
        /\ renderer = NewRenderer
        /\ draws = <<>>
        /\ build = NoBuild

NextAlign == Align

SpecAlign == InitAlign /\ [][NextAlign]_vars

\* Line caps: after one of CapSetups, groups are pushed and popped and line
\* caps are set, in any order.
InitCap ==
    \E cs \in CapSetups :
        /\ hist = Run(cs)
        /\ stack = Last(Run(cs)).stack
        /\ budget = MaxCapCalls
        /\ renderer = NewRenderer
        /\ draws = <<>>
        /\ build = NoBuild

NextCap == PushChild \/ Pop \/ SetLineCap

SpecCap == InitCap /\ [][NextCap]_vars

\* The frame of Walk: the methods are called in the order of Walk, root and
\* push with any of WalkSizes and any layout.
InitWalk ==
    /\ hist = <<New>>
    /\ stack = <<>>
    /\ budget = Len(Walk)
    /\ renderer = NewRenderer
    /\ draws = <<>>
    /\ build = NoBuild

\* Whether the next call of the frame is the method op.
NextIs(op) == Len(hist) <= Len(Walk) /\ Walk[Len(hist)] = op

WalkRoot ==
    \E size \in WalkSizes, layout \in Layout :
        /\ NextIs("root")
        /\ CanCall
        /\ stack' = Apply(stack, C_root(size, layout)).stack
        /\ hist' = Logged(C_root(size, layout))
        /\ budget' = budget - 1
        /\ UNCHANGED <<renderer, draws, build>>

WalkPush ==
    \E size \in WalkSizes, layout \in Layout :
        /\ NextIs("push")
        /\ CanCall
        /\ stack' = Apply(stack, C_push(size, layout)).stack
        /\ hist' = Logged(C_push(size, layout))
        /\ budget' = budget - 1
        /\ UNCHANGED <<renderer, draws, build>>

WalkPop == NextIs("pop") /\ Pop

WalkFit == NextIs("fit") /\ Fit

NextWalk == WalkRoot \/ WalkPush \/ WalkPop \/ WalkFit

SpecWalk == InitWalk /\ [][NextWalk]_vars

-----------------------------------------------------------------------------
(* Drawing: after one of DrawSetups, draw is called, and its callback      *)
(* calls push, pop, fit and draw on the Ui and push, translate and pop on  *)
(* the renderer.                                                           *)

\* draw is called: the first half of Ui::draw runs and the callback starts.
DrawBegin ==
    /\ CanCall
    /\ stack' = draw_enter(stack, renderer).stack
    /\ hist' = Append(hist, [call |-> [op |-> "draw"],
                             ok |-> draw_enter(stack, renderer).ok,
                             val |-> draw_enter(stack, renderer).val,
                             stack |-> draw_enter(stack, renderer).stack])
    /\ budget' = budget - 1
    /\ renderer' = draw_enter(stack, renderer).renderer
    /\ build' = build
    /\ draws' = IF draw_enter(stack, renderer).ok
                THEN Append(draws, DrawEntered(stack, renderer, Len(hist) + 1))
                ELSE draws

\* The callback of the innermost draw returns: the second half of Ui::draw
\* runs.
DrawReturn ==
    /\ CanCall
    /\ OpenDraws(draws) # {}
    /\ stack' = stack
    /\ hist' = Append(hist, [call |-> [op |-> "draw_return"], ok |-> TRUE, val |-> Unit,
                             stack |-> stack])
    /\ budget' = budget - 1
    /\ renderer' = draw_leave(renderer)
    /\ build' = build
    /\ draws' = [draws EXCEPT ![Innermost(draws)] =
                    [@ EXCEPT !.status = "returned", !.ended = renderer,
                              !.after = draw_leave(renderer)]]

\* A call has panicked inside the callback of the innermost draw: the panic
\* unwinds through Ui::draw, which holds nothing that is dropped, so the
\* rest of its body is skipped.
Unwind ==
    /\ ~Last(hist).ok
    /\ OpenDraws(draws) # {}
    /\ build' = build
    /\ draws' = [draws EXCEPT ![Innermost(draws)] =
                    [@ EXCEPT !.status = "unwound", !.ended = renderer, !.after = renderer]]
    /\ UNCHANGED <<stack, hist, budget, renderer>>

\* The callback calls ui.render().push().
RenderPush ==
    /\ CanCall
    /\ OpenDraws(draws) # {}
    /\ stack' = stack
    /\ hist' = Append(hist, [call |-> [op |-> "render_push"], ok |-> TRUE, val |-> Unit,
                             stack |-> stack])
    /\ budget' = budget - 1
    /\ renderer' = Renderer_push(renderer)
    /\ build' = build
    /\ draws' = draws

\* The callback calls ui.render().translate(vec), between a push and a pop
\* of its own.
RenderTranslate ==
    \E vec \in Offsets :
        /\ CanCall
        /\ OpenDraws(draws) # {}
        /\ Len(renderer.saved) > Len(draws[Innermost(draws)].entered.saved)
        /\ stack' = stack
        /\ hist' = Append(hist, [call |-> [op |-> "render_translate", vec |-> vec],
                                 ok |-> TRUE, val |-> Unit, stack |-> stack])
        /\ budget' = budget - 1
        /\ renderer' = Renderer_translate(renderer, vec)
        /\ build' = build
        /\ draws' = draws

\* The callback calls ui.render().pop(), to undo a push of its own.
RenderPop ==
    /\ CanCall
    /\ OpenDraws(draws) # {}
    /\ Len(renderer.saved) > Len(draws[Innermost(draws)].entered.saved)
    /\ stack' = stack
    /\ hist' = Append(hist, [call |-> [op |-> "render_pop"], ok |-> TRUE, val |-> Unit,
                             stack |-> stack])
    /\ budget' = budget - 1
    /\ renderer' = Renderer_pop(renderer)
    /\ build' = build
    /\ draws' = draws

InitDraw ==
    \E cs \in DrawSetups :
        /\ hist = Run(cs)
        /\ stack = Last(Run(cs)).stack
        /\ budget = MaxDrawCalls
        /\ renderer = NewRenderer
        /\ draws = <<>>
        /\ build = NoBuild

NextDraw ==
    \/ DrawBegin
    \/ DrawReturn
    \/ Unwind
    \/ RenderPush
    \/ RenderTranslate
    \/ RenderPop
    \/ PushChild
    \/ Pop
    \/ Fit

SpecDraw == InitDraw /\ [][NextDraw]_vars

-----------------------------------------------------------------------------
(* build!: after one of BuildSetups a build! block runs.  Its items are    *)
(* group items, nested or one after another, and calls of space as         *)
(* statements.  build.open holds, for each group item whose body is        *)
(* running, where its push is in hist; build.done, for each group item     *)
(* that is over, where its first and its last call are.                    *)

\* A group item starts: what comes before its body is called.
BuildGroupOpen ==
    \E size \in Sizes, layout \in {"Vertical", "Freeform"} :
        /\ CanCall
        /\ hist' = RunOn(hist, build_group_before(size, layout))
        /\ stack' = Last(RunOn(hist, build_group_before(size, layout))).stack
        /\ budget' = budget - 1
        /\ build' = [build EXCEPT !.open = Append(@, Len(hist) + 1)]
        /\ UNCHANGED <<renderer, draws>>

\* The body of the innermost group item is over: what comes after it is
\* called.
BuildGroupClose ==
    /\ CanCall
    /\ build.open # <<>>
    /\ hist' = RunOn(hist, build_group_after)
    /\ stack' = Last(RunOn(hist, build_group_after)).stack
    /\ budget' = budget - 1
    /\ build' = [build EXCEPT
                    !.open = Front(@),
                    !.done = Append(@, [from |-> Last(build.open),
                                        to |-> Len(RunOn(hist, build_group_after))])]
    /\ UNCHANGED <<renderer, draws>>

InitBuild ==
    \E cs \in BuildSetups :
        /\ hist = Run(cs)
        /\ stack = Last(Run(cs)).stack
        /\ budget = MaxBuildCalls
        /\ renderer = NewRenderer
        /\ draws = <<>>
        /\ build = [base |-> Len(Run(cs)), open |-> <<>>, done |-> <<>>]

NextBuild == BuildGroupOpen \/ BuildGroupClose \/ Space

SpecBuild == InitBuild /\ [][NextBuild]_vars

-----------------------------------------------------------------------------
(* A deep stack: the Ui after one of DeepSetups, and then any calls.       *)

InitDeep ==
    \E cs \in DeepSetups :
        /\ hist = Run(cs)
        /\ stack = Last(Run(cs)).stack
        /\ budget = MaxDeepCalls
        /\ renderer = NewRenderer
        /\ draws = <<>>
        /\ build = NoBuild

SpecDeep == InitDeep /\ [][Next]_vars

-----------------------------------------------------------------------------
(* Laying out without touching the cursor by hand: after one of            *)
(* ConfinedSetups, calls of push, pop, space with amounts that are not     *)
(* negative, fit, align and set_line_cap.                                  *)

\* push of a group of any layout.
PushLaidOut ==
    \E layout \in Layout :
        /\ CanCall
        /\ stack' = Apply(stack, C_push(vector(Px(1), Px(3)), layout)).stack
        /\ hist' = Logged(C_push(vector(Px(1), Px(3)), layout))
        /\ budget' = budget - 1
        /\ UNCHANGED <<renderer, draws, build>>

\* space with an amount that is not negative: none, or two pixels.
SpaceForward ==
    \E amount \in {0, Px(2)} :
        /\ CanCall
        /\ stack' = Apply(stack, C_space(amount)).stack
        /\ hist' = Logged(C_space(amount))
        /\ budget' = budget - 1
        /\ UNCHANGED <<renderer, draws, build>>

\* align to the far corner of the parent.
AlignFar ==
    /\ CanCall
    /\ stack' = Apply(stack, C_align(<<"Right", "Bottom">>, FALSE)).stack
    /\ hist' = Logged(C_align(<<"Right", "Bottom">>, FALSE))
    /\ budget' = budget - 1
    /\ UNCHANGED <<renderer, draws, build>>

InitConfined ==
    \E cs \in ConfinedSetups :
        /\ hist = Run(cs)
        /\ stack = Last(Run(cs)).stack
        /\ budget = MaxConfinedCalls
        /\ renderer = NewRenderer
        /\ draws = <<>>
        /\ build = NoBuild

NextConfined == PushLaidOut \/ Pop \/ SpaceForward \/ Fit \/ AlignFar \/ SetLineCap

SpecConfined == InitConfined /\ [][NextConfined]_vars

-----------------------------------------------------------------------------
(* Laying out without set_cursor and offset: after one of ConfinedSetups,  *)
(* calls of push, pop, space, pad, fit, align and set_line_cap.            *)

NextRemaining ==
    PushLaidOut \/ Pop \/ Space \/ Pad \/ Fit \/ AlignFar \/ SetLineCap

SpecRemaining == InitConfined /\ [][NextRemaining]_vars

-----------------------------------------------------------------------------
(* A child resized before it is popped: after one of ResizeSetups, calls   *)
(* of pad, set_cursor, fit and pop.                                        *)

InitResize ==
    \E cs \in ResizeSetups :
        /\ hist = Run(cs)
        /\ stack = Last(Run(cs)).stack
        /\ budget = MaxResizeCalls
        /\ renderer = NewRenderer
        /\ draws = <<>>
        /\ build = NoBuild

NextResize == Pad \/ SetCursor \/ Fit \/ Pop

SpecResize == InitResize /\ [][NextResize]_vars

-----------------------------------------------------------------------------
(* Children and spaces in a parent: after one of ParentSetups, calls of    *)
(* push, pop and space in any order.                                       *)

InitMirror ==
    \E cs \in ParentSetups :
        /\ hist = Run(cs)
        /\ stack = Last(Run(cs)).stack
        /\ budget = MaxMirrorCalls
        /\ renderer = NewRenderer
        /\ draws = <<>>
        /\ build = NoBuild

NextMirror == Push \/ Pop \/ Space

SpecMirror == InitMirror /\ [][NextMirror]_vars

-----------------------------------------------------------------------------
(* A Ui used for another frame: after one of ReframeSetups the frame is    *)
(* opened with root, and then any calls are made.                          *)

InitReframe ==
    \E cs \in ReframeSetups :
        /\ hist = Run(cs)
        /\ stack = Last(Run(cs)).stack
        /\ budget = MaxReframeCalls
        /\ renderer = NewRenderer
        /\ draws = <<>>
        /\ build = NoBuild

\* The call that opens the frame.
ReframeRoot == budget = MaxReframeCalls /\ Root

\* Any call made once the frame is open.
ReframeCall == budget < MaxReframeCalls /\ Next

NextReframe == ReframeRoot \/ ReframeCall

SpecReframe == InitReframe /\ [][NextReframe]_vars

-----------------------------------------------------------------------------
(* What the claims are stated in: hist[1] is Ui::new, and hist[i] for i in *)
(* Made is a call, made on the stack BeforeCall(i), leaving AfterCall(i).  *)

Made == 2..Len(hist)

Op(i) == hist[i].call.op

BeforeCall(i) == hist[i - 1].stack

AfterCall(i) == hist[i].stack

\* The calls i+1 .. i+n were made, and are the methods ops in this order, and
\* each returned normally.
Then(i, ops) ==
    /\ i + Len(ops) <= Len(hist)
    /\ \A k \in 1..Len(ops) : Op(i + k) = ops[k] /\ hist[i + k].ok

\* The calls i+1 .. i+2k were made and are k times a push and then a pop, and
\* each returned normally.
Kids(i, k) ==
    /\ i + 2 * k <= Len(hist)
    /\ \A j \in 1..k :
           /\ Op(i + 2 * j - 1) = "push" /\ hist[i + 2 * j - 1].ok
           /\ Op(i + 2 * j) = "pop" /\ hist[i + 2 * j].ok

\* The sizes these k pushes were called with, added up.
RECURSIVE KidsSize(_, _)
KidsSize(i, k) ==
    IF k = 0
    THEN [x |-> 0, y |-> 0]
    ELSE [x |-> KidsSize(i, k - 1).x + hist[i + 2 * k - 1].call.size.x,
          y |-> KidsSize(i, k - 1).y + hist[i + 2 * k - 1].call.size.y]

\* The stack variable is the stack the last call left, and every size and
\* cursor on it is a whole number of pixels.
SizesWhole ==
    /\ stack = Last(hist).stack
    /\ \A k \in 1..Len(stack) :
           \A v \in {stack[k].rect.size.x, stack[k].rect.size.y,
                     stack[k].cursor.x, stack[k].cursor.y} : v % 2 = 0

-----------------------------------------------------------------------------
(* C1.  root(size, layout), called in any state (on an empty stack, on the *)
(* root alone, on a deeper stack), returns normally and leaves exactly one *)
(* group: position (0,0), the given size, the given layout, cursor (0,0),  *)
(* line cap Butt.                                                          *)
C1_RootResets ==
    \A i \in Made :
        Op(i) = "root" =>
            /\ hist[i].ok
            /\ Len(AfterCall(i)) = 1
            /\ AfterCall(i)[1].rect.position = [x |-> 0, y |-> 0]
            /\ AfterCall(i)[1].rect.size = hist[i].call.size
            /\ AfterCall(i)[1].layout = hist[i].call.layout
            /\ AfterCall(i)[1].cursor = [x |-> 0, y |-> 0]
            /\ AfterCall(i)[1].line_cap = "Butt"

\* root was called on a stack two deep whose groups it did not create.
C1_Witness ==
    /\ Len(hist) >= 3
    /\ Op(Len(hist)) = "root"
    /\ Len(BeforeCall(Len(hist))) = 2
    /\ stack # BeforeCall(Len(hist))

(* C2.  Over any run of push and pop calls that starts on a non-empty      *)
(* stack and in which every call returns normally (none pops the last      *)
(* group), the depth at the end is the depth at the start plus the number  *)
(* of pushes minus the number of pops; a single push adds one, a single    *)
(* pop takes one away.                                                     *)
C2_DepthBalance ==
    \A i \in 1..Len(hist) : \A j \in i..Len(hist) :
        ( /\ Len(hist[i].stack) >= 1
          /\ \A k \in (i + 1)..j : Op(k) \in {"push", "pop"} /\ hist[k].ok )
        => Len(hist[j].stack) =
               Len(hist[i].stack)
                 + Cardinality({k \in (i + 1)..j : Op(k) = "push"})
                 - Cardinality({k \in (i + 1)..j : Op(k) = "pop"})

\* Three calls on a stack two deep: a push and two pops, which end one below
\* the depth they started at, having been one above it.
C2_Witness ==
    \E i \in 1..Len(hist) :
        /\ Len(hist) = i + 3
        /\ Len(hist[i].stack) = 2
        /\ Then(i, <<"push", "pop", "pop">>)
        /\ Len(stack) = 1

(* C3.  push(size, layout) on a non-empty stack returns normally and puts  *)
(* one group above the groups that were there, which it leaves as they     *)
(* were.  The new group has the given size and layout and cursor (0,0).    *)
(* Its position follows the layout of the group that was on top, the       *)
(* parent: parent.position + parent.cursor under Freeform, Horizontal and  *)
(* Vertical; parent.top_right + parent.cursor - (size.x, 0) under          *)
(* HorizontalRev; parent.bottom_left + parent.cursor - (0, size.y) under   *)
(* VerticalRev.  The layout given to push has no part in the position.     *)
C3_PushPlacement ==
    \A i \in Made :
        (Op(i) = "push" /\ Len(BeforeCall(i)) >= 1) =>
            LET parent == Last(BeforeCall(i))
                size == hist[i].call.size
                child == Last(AfterCall(i))
                px == parent.rect.position.x
                py == parent.rect.position.y
                cx == parent.cursor.x
                cy == parent.cursor.y
            IN  /\ hist[i].ok
                /\ Len(AfterCall(i)) = Len(BeforeCall(i)) + 1
                /\ Front(AfterCall(i)) = BeforeCall(i)
                /\ child.rect.size = size
                /\ child.layout = hist[i].call.layout
                /\ child.cursor = [x |-> 0, y |-> 0]
                /\ parent.layout \in {"Freeform", "Horizontal", "Vertical"} =>
                       child.rect.position = [x |-> px + cx, y |-> py + cy]
                /\ parent.layout = "HorizontalRev" =>
                       child.rect.position =
                           [x |-> px + parent.rect.size.x + cx - size.x, y |-> py + cy]
                /\ parent.layout = "VerticalRev" =>
                       child.rect.position =
                           [x |-> px + cx, y |-> py + parent.rect.size.y + cy - size.y]

\* A group was pushed into a HorizontalRev group that lies away from the
\* origin and whose cursor has moved on both axes, with a layout of its own
\* that anchors differently.
C3_Witness ==
    /\ Len(hist) >= 3
    /\ Op(Len(hist)) = "push"
    /\ hist[Len(hist)].call.layout = "VerticalRev"
    /\ Len(BeforeCall(Len(hist))) = 2
    /\ Last(BeforeCall(Len(hist))).layout = "HorizontalRev"
    /\ Last(BeforeCall(Len(hist))).rect.position.x # 0
    /\ Last(BeforeCall(Len(hist))).rect.position.y # 0
    /\ Last(BeforeCall(Len(hist))).cursor.x # 0
    /\ Last(BeforeCall(Len(hist))).cursor.y # 0
    /\ Len(stack) = 3

(* C4.  pop() on a stack two or more deep returns normally, removes the    *)
(* top group and changes nothing in what remains but the cursor of the new *)
(* top, the parent, by the parent's layout: Freeform leaves it; Horizontal *)
(* adds the popped group's width to cursor.x; Vertical adds its height to  *)
(* cursor.y; HorizontalRev subtracts its width from cursor.x; VerticalRev  *)
(* subtracts its height from cursor.y.  The other axis is never changed.   *)
C4_PopAdvance ==
    \A i \in Made :
        (Op(i) = "pop" /\ Len(BeforeCall(i)) >= 2) =>
            LET before == BeforeCall(i)
                child == before[Len(before)]
                parent == before[Len(before) - 1]
                w == child.rect.size.x
                h == child.rect.size.y
                after == AfterCall(i)
                cursor == Last(after).cursor
            IN  /\ hist[i].ok
                /\ Len(after) = Len(before) - 1
                /\ \A k \in 1..(Len(after) - 1) : after[k] = before[k]
                /\ Last(after).rect = parent.rect
                /\ Last(after).layout = parent.layout
                /\ Last(after).line_cap = parent.line_cap
                /\ parent.layout = "Freeform" => cursor = parent.cursor
                /\ parent.layout = "Horizontal" =>
                       cursor = [x |-> parent.cursor.x + w, y |-> parent.cursor.y]
                /\ parent.layout = "Vertical" =>
                       cursor = [x |-> parent.cursor.x, y |-> parent.cursor.y + h]
                /\ parent.layout = "HorizontalRev" =>
                       cursor = [x |-> parent.cursor.x - w, y |-> parent.cursor.y]
                /\ parent.layout = "VerticalRev" =>
                       cursor = [x |-> parent.cursor.x, y |-> parent.cursor.y - h]

\* A padded group was popped out of a VerticalRev group whose cursor had
\* moved on both axes.
C4_Witness ==
    /\ Len(hist) >= 3
    /\ Op(Len(hist)) = "pop"
    /\ hist[Len(hist)].ok
    /\ Op(Len(hist) - 1) = "pad"
    /\ Len(BeforeCall(Len(hist))) = 2
    /\ BeforeCall(Len(hist))[1].layout = "VerticalRev"
    /\ BeforeCall(Len(hist))[1].cursor.x # 0
    /\ BeforeCall(Len(hist))[1].cursor.y # 0
    /\ stack[1].cursor.y # BeforeCall(Len(hist))[1].cursor.y

(* C5.  Into a Vertical group whose cursor is (0,0), three children of      *)
(* heights h1, h2, h3 are pushed and popped one after another with no      *)
(* other call in between.  They are placed at y = parent.y, parent.y + h1  *)
(* and parent.y + h1 + h2, and the parent's cursor ends at                 *)
(* (0, h1 + h2 + h3).                                                      *)
C5_VerticalAccumulates ==
    \A i \in 1..Len(hist) :
        ( /\ hist[i].ok
          /\ Len(hist[i].stack) >= 1
          /\ Last(hist[i].stack).layout = "Vertical"
          /\ Last(hist[i].stack).cursor = [x |-> 0, y |-> 0]
          /\ Then(i, <<"push", "pop", "push", "pop", "push", "pop">>) )
        => LET parent == Last(hist[i].stack)
               h1 == hist[i + 1].call.size.y
               h2 == hist[i + 3].call.size.y
               h3 == hist[i + 5].call.size.y
           IN  /\ Last(hist[i + 1].stack).rect.position.y = parent.rect.position.y
               /\ Last(hist[i + 3].stack).rect.position.y = parent.rect.position.y + h1
               /\ Last(hist[i + 5].stack).rect.position.y = parent.rect.position.y + h1 + h2
               /\ Last(hist[i + 6].stack).cursor = [x |-> 0, y |-> h1 + h2 + h3]

\* The third child of a Vertical group that lies away from y = 0 has been
\* popped; the first two differed in height and in width.
C5_Witness ==
    \E i \in 1..Len(hist) :
        /\ Len(hist) = i + 6
        /\ Len(hist[i].stack) = 2
        /\ Last(hist[i].stack).layout = "Vertical"
        /\ Last(hist[i].stack).cursor = [x |-> 0, y |-> 0]
        /\ Last(hist[i].stack).rect.position.y # 0
        /\ Then(i, <<"push", "pop", "push", "pop", "push", "pop">>)
        /\ hist[i + 1].call.size.y # hist[i + 3].call.size.y
        /\ Len(stack) = 2

(* C6.  A HorizontalRev group of width W lies at x0 and its cursor is      *)
(* (0,0).  A child of width w pushed into it is placed at x = x0 + W - w.  *)
(* remaining_width() read on the group is W before the push and W - w      *)
(* after the child has been popped.                                        *)
C6_ReversedChild ==
    \A i \in 1..Len(hist) :
        ( /\ hist[i].ok
          /\ Len(hist[i].stack) >= 1
          /\ Last(hist[i].stack).layout = "HorizontalRev"
          /\ Last(hist[i].stack).cursor = [x |-> 0, y |-> 0]
          /\ Then(i, <<"push", "pop">>) )
        => LET W == Last(hist[i].stack).rect.size.x
               x0 == Last(hist[i].stack).rect.position.x
               w == hist[i + 1].call.size.x
           IN  /\ Last(hist[i + 1].stack).rect.position.x = x0 + W - w
               /\ remaining_width(hist[i].stack).val = W
               /\ remaining_width(hist[i + 2].stack).val = W - w

\* The child of a HorizontalRev group that lies away from x = 0 has been
\* popped.
C6_Witness ==
    \E i \in 1..Len(hist) :
        /\ Len(hist) = i + 2
        /\ Len(hist[i].stack) = 2
        /\ Last(hist[i].stack).layout = "HorizontalRev"
        /\ Last(hist[i].stack).cursor = [x |-> 0, y |-> 0]
        /\ Last(hist[i].stack).rect.position.x # 0
        /\ Then(i, <<"push", "pop">>)
        /\ hist[i + 1].call.size.x > 0

(* C7, as claimed.  remaining_width() of a group is the same after a push  *)
(* followed at once by its pop as it was before the push, for every layout *)
(* of the group and every size of the child.                               *)
C7_Claimed ==
    \A i \in 1..Len(hist) :
        (hist[i].ok /\ Len(hist[i].stack) >= 1 /\ Then(i, <<"push", "pop">>))
        => remaining_width(hist[i + 2].stack).val = remaining_width(hist[i].stack).val

(* C7, amended.  Over a push followed at once by its pop, remaining_width()*)
(* of the group is unchanged when the group is Freeform, Vertical or       *)
(* VerticalRev, and is smaller by exactly the child's width when the group *)
(* is Horizontal or HorizontalRev.                                         *)
C7_RemainingWidthOverPushPop ==
    \A i \in 1..Len(hist) :
        (hist[i].ok /\ Len(hist[i].stack) >= 1 /\ Then(i, <<"push", "pop">>))
        => LET layout == Last(hist[i].stack).layout
               before == remaining_width(hist[i].stack).val
               after == remaining_width(hist[i + 2].stack).val
               w == hist[i + 1].call.size.x
           IN  /\ layout \in {"Freeform", "Vertical", "VerticalRev"} => after = before
               /\ layout \in {"Horizontal", "HorizontalRev"} => after = before - w

\* A child has been pushed into and popped out of a Horizontal group whose
\* cursor had moved before, and remaining_width() is no longer what it was.
C7_Witness ==
    \E i \in 1..Len(hist) :
        /\ Len(hist) = i + 2
        /\ Len(hist[i].stack) >= 1
        /\ Last(hist[i].stack).layout = "Horizontal"
        /\ Last(hist[i].stack).cursor.x # 0
        /\ Then(i, <<"push", "pop">>)
        /\ remaining_width(stack).val # remaining_width(hist[i].stack).val

(* C8.  On an empty stack (a new Ui, before the first root) each of the    *)
(* getters position, size, width, height, cursor, line_cap, remaining_size,*)
(* remaining_width, remaining_height and each of push, set_cursor, offset, *)
(* space, pad, fit, set_line_cap panics with a "no groups on the stack"    *)
(* message and leaves the stack empty; of all the calls, only root returns *)
(* normally there.                                                         *)
C8_EmptyStackPanics ==
    \A i \in Made :
        BeforeCall(i) = <<>> =>
            /\ Op(i) \in Getters \cup {"push", "set_cursor", "offset", "space", "pad",
                                       "fit", "set_line_cap"} =>
                   /\ ~hist[i].ok
                   /\ hist[i].val \in {NoGroupsToRead, NoGroupsToModify}
                   /\ AfterCall(i) = <<>>
            /\ hist[i].ok <=> Op(i) = "root"

\* remaining_width() was called on a new Ui and panicked.
C8_Witness ==
    /\ Len(hist) = 2
    /\ Op(2) = "remaining_width"
    /\ BeforeCall(2) = <<>>
    /\ ~hist[2].ok

(* C9.  pop() panics when the root is the only group on the stack and when *)
(* the stack is empty; a pop that returns normally leaves at least one     *)
(* group.                                                                  *)
C9_PopRootPanics ==
    \A i \in Made :
        Op(i) = "pop" =>
            /\ Len(BeforeCall(i)) <= 1 => ~hist[i].ok
            /\ hist[i].ok => Len(AfterCall(i)) >= 1

\* pop() was called with the root alone on the stack, and panicked.
C9_Witness ==
    /\ Len(hist) >= 3
    /\ Op(Len(hist)) = "pop"
    /\ Len(BeforeCall(Len(hist))) = 1
    /\ ~hist[Len(hist)].ok

(* C10.  Once root has been called, and as long as every call made so far  *)
(* has returned normally, the stack holds at least one group.              *)
C10_NonEmptyAfterRoot ==
    ( /\ \E i \in Made : Op(i) = "root"
      /\ \A i \in 1..Len(hist) : hist[i].ok )
    => Len(stack) >= 1

\* After root, a push and a pop have returned normally and left the root.
C10_Witness ==
    /\ Len(hist) = 4
    /\ Op(2) = "root"
    /\ Then(2, <<"push", "pop">>)
    /\ Len(stack) = 1

(* C11.  align(alignment) on a stack two or more deep returns normally and *)
(* sets the position of the top group from the rectangle the group just    *)
(* below it has now (padding applied to it included) and the top group's   *)
(* own size: x is parent.left for Left, parent.left + parent.width / 2 -   *)
(* width / 2 for Center, parent.left + parent.width - width for Right; y   *)
(* is the same with top, height, Top, Middle and Bottom.  The top group's  *)
(* size, cursor, layout and line cap and every other group are unchanged.  *)
(* The Center and Middle rows are stated doubled, so that no halving is    *)
(* needed to state them.                                                   *)
C11_AlignPlacement ==
    \A i \in Made :
        (Op(i) = "align" /\ Len(BeforeCall(i)) >= 2) =>
            LET before == BeforeCall(i)
                n == Len(before)
                parent == before[n - 1].rect
                subject == before[n]
                w == subject.rect.size.x
                h == subject.rect.size.y
                a == hist[i].call.alignment
                after == AfterCall(i)
                pos == after[n].rect.position
            IN  /\ hist[i].ok
                /\ Len(after) = n
                /\ \A k \in 1..(n - 1) : after[k] = before[k]
                /\ after[n].rect.size = subject.rect.size
                /\ after[n].cursor = subject.cursor
                /\ after[n].layout = subject.layout
                /\ after[n].line_cap = subject.line_cap
                /\ a[1] = "Left" => pos.x = parent.position.x
                /\ a[1] = "Center" => 2 * pos.x = 2 * parent.position.x + parent.size.x - w
                /\ a[1] = "Right" => pos.x = parent.position.x + parent.size.x - w
                /\ a[2] = "Top" => pos.y = parent.position.y
                /\ a[2] = "Middle" => 2 * pos.y = 2 * parent.position.y + parent.size.y - h
                /\ a[2] = "Bottom" => pos.y = parent.position.y + parent.size.y - h

\* A group whose cursor had moved was aligned Right/Middle in a parent that
\* had been padded, and moved.
C11_Witness ==
    /\ Len(hist) >= 4
    /\ Op(Len(hist)) = "align"
    /\ hist[Len(hist)].call.alignment = <<"Right", "Middle">>
    /\ hist[Len(hist)].ok
    /\ Len(BeforeCall(Len(hist))) = 2
    /\ BeforeCall(Len(hist))[1].rect.position # [x |-> 0, y |-> 0]
    /\ BeforeCall(Len(hist))[2].cursor # [x |-> 0, y |-> 0]
    /\ stack[2].rect.position.x # BeforeCall(Len(hist))[2].rect.position.x
    /\ stack[2].rect.position.y # BeforeCall(Len(hist))[2].rect.position.y

(* C12.  align is idempotent: when align is called twice in a row with the *)
(* same alignment and both calls return, the top group's rectangle after   *)
(* the second call is its rectangle after the first, whatever the parent's *)
(* rectangle and the group's size; and so is the whole stack.              *)
C12_AlignIdempotent ==
    \A i \in Made :
        ( /\ i + 1 <= Len(hist)
          /\ Op(i) = "align" /\ hist[i].ok
          /\ Op(i + 1) = "align" /\ hist[i + 1].ok
          /\ hist[i + 1].call.alignment = hist[i].call.alignment )
        => /\ Last(AfterCall(i + 1)).rect = Last(AfterCall(i)).rect
           /\ AfterCall(i + 1) = AfterCall(i)

\* A padded group was aligned Center/Middle twice in a row in a parent that
\* had been padded, and the first of the two calls moved it on both axes.
C12_Witness ==
    /\ Len(hist) >= 5
    /\ Op(Len(hist)) = "align" /\ hist[Len(hist)].ok
    /\ Op(Len(hist) - 1) = "align" /\ hist[Len(hist) - 1].ok
    /\ hist[Len(hist)].call.alignment = <<"Center", "Middle">>
    /\ hist[Len(hist) - 1].call.alignment = <<"Center", "Middle">>
    /\ Op(Len(hist) - 2) = "pad"
    /\ BeforeCall(Len(hist) - 1)[1].rect.position # [x |-> 0, y |-> 0]
    /\ stack[2].rect.position.x # BeforeCall(Len(hist) - 1)[2].rect.position.x
    /\ stack[2].rect.position.y # BeforeCall(Len(hist) - 1)[2].rect.position.y

(* C13.  align called with fewer than two groups on the stack (none, or    *)
(* the root alone) panics, whether or not the build checks integer         *)
(* overflow, and leaves the stack as it was.                               *)
C13_AlignNeedsParent ==
    \A i \in Made :
        (Op(i) = "align" /\ Len(BeforeCall(i)) < 2) =>
            /\ ~hist[i].ok
            /\ hist[i].val \in {SubtractOverflow, NoParent}
            /\ AfterCall(i) = BeforeCall(i)

\* In a build that does not check overflow, align was called Right/Bottom on
\* a padded root group that was alone on the stack, and panicked.
C13_Witness ==
    /\ Len(hist) = 4
    /\ Op(2) = "root"
    /\ Op(3) = "pad"
    /\ Op(4) = "align"
    /\ hist[4].call.alignment = <<"Right", "Bottom">>
    /\ ~hist[4].call.overflow_checks
    /\ ~hist[4].ok
    /\ Len(stack) = 1

(* C14.  A Horizontal or Vertical group has its cursor at (0,0).  k        *)
(* children (k = 0, 1, 2, ...) are pushed into it and popped one after     *)
(* another with no other call in between, and then fit is called.  fit     *)
(* returns normally and the group's size along its layout's axis (width    *)
(* for Horizontal, height for Vertical) is exactly the sum of the          *)
(* children's sizes along that axis; its size along the other axis is what *)
(* it was before the children, and so is its position.                     *)
C14_FitToChildren ==
    \A i \in 1..Len(hist) : \A k \in 0..Len(hist) :
        ( /\ hist[i].ok
          /\ Len(hist[i].stack) >= 1
          /\ Last(hist[i].stack).layout \in {"Horizontal", "Vertical"}
          /\ Last(hist[i].stack).cursor = [x |-> 0, y |-> 0]
          /\ Kids(i, k)
          /\ i + 2 * k + 1 <= Len(hist)
          /\ Op(i + 2 * k + 1) = "fit" )
        => LET group == Last(hist[i].stack)
               fitted == Last(hist[i + 2 * k + 1].stack)
               E == KidsSize(i, k)
           IN  /\ hist[i + 2 * k + 1].ok
               /\ Len(hist[i + 2 * k + 1].stack) = Len(hist[i].stack)
               /\ fitted.rect.position = group.rect.position
               /\ group.layout = "Horizontal" =>
                      /\ fitted.rect.size.x = E.x
                      /\ fitted.rect.size.y = group.rect.size.y
               /\ group.layout = "Vertical" =>
                      /\ fitted.rect.size.y = E.y
                      /\ fitted.rect.size.x = group.rect.size.x

\* A Horizontal group that lies away from the origin has been fitted to two
\* children of different widths, and is narrower than it was.
C14_Witness ==
    \E i \in 1..Len(hist) :
        /\ Len(hist) = i + 5
        /\ Len(hist[i].stack) = 2
        /\ Last(hist[i].stack).layout = "Horizontal"
        /\ Last(hist[i].stack).cursor = [x |-> 0, y |-> 0]
        /\ Last(hist[i].stack).rect.position # [x |-> 0, y |-> 0]
        /\ Kids(i, 2)
        /\ hist[i + 1].call.size.x # hist[i + 3].call.size.x
        /\ Op(i + 5) = "fit" /\ hist[i + 5].ok
        /\ Last(stack).rect.size.x = hist[i + 1].call.size.x + hist[i + 3].call.size.x
        /\ Last(stack).rect.size.x < Last(hist[i].stack).rect.size.x

(* C15.  space called on a Freeform group panics, and fit called on a      *)
(* HorizontalRev or VerticalRev group panics; the call that panics leaves  *)
(* the stack as it was: the same depth, and every group's rectangle,       *)
(* cursor, layout and line cap.                                            *)
C15_UnsupportedLayoutPanics ==
    \A i \in Made :
        Len(BeforeCall(i)) >= 1 =>
            /\ (Op(i) = "space" /\ Last(BeforeCall(i)).layout = "Freeform") =>
                   /\ ~hist[i].ok
                   /\ hist[i].val = SpaceOnFreeform
                   /\ AfterCall(i) = BeforeCall(i)
            /\ (Op(i) = "fit" /\ Last(BeforeCall(i)).layout \in {"HorizontalRev", "VerticalRev"}) =>
                   /\ ~hist[i].ok
                   /\ hist[i].val = FitOnReverse
                   /\ AfterCall(i) = BeforeCall(i)

\* fit was called on a HorizontalRev group, nested and with a cursor that had
\* moved, and panicked.
C15_Witness ==
    /\ Len(hist) >= 4
    /\ Op(Len(hist)) = "fit"
    /\ ~hist[Len(hist)].ok
    /\ Len(stack) = 2
    /\ Last(stack).layout = "HorizontalRev"
    /\ Last(stack).cursor # [x |-> 0, y |-> 0]
    /\ Last(stack).rect.size # Last(stack).cursor

(* C16.  space(amount) called on a group that is not Freeform returns      *)
(* normally and changes nothing but the top group's cursor: cursor.x +     *)
(* amount under Horizontal, cursor.y + amount under Vertical, cursor.x -   *)
(* amount under HorizontalRev, cursor.y - amount under VerticalRev, the    *)
(* other component as it was.  So remaining_width() under the two          *)
(* horizontal layouts, and remaining_height() under the two vertical ones, *)
(* is smaller after the call by exactly amount.                            *)
C16_SpaceAdvances ==
    \A i \in Made :
        ( /\ Op(i) = "space"
          /\ Len(BeforeCall(i)) >= 1
          /\ Last(BeforeCall(i)).layout # "Freeform" )
        => LET before == BeforeCall(i)
               after == AfterCall(i)
               t == Last(before)
               amount == hist[i].call.amount
               cursor == Last(after).cursor
           IN  /\ hist[i].ok
               /\ Len(after) = Len(before)
               /\ \A k \in 1..(Len(before) - 1) : after[k] = before[k]
               /\ Last(after).rect = t.rect
               /\ Last(after).layout = t.layout
               /\ Last(after).line_cap = t.line_cap
               /\ t.layout = "Horizontal" =>
                      /\ cursor = [x |-> t.cursor.x + amount, y |-> t.cursor.y]
                      /\ remaining_width(after).val = remaining_width(before).val - amount
               /\ t.layout = "Vertical" =>
                      /\ cursor = [x |-> t.cursor.x, y |-> t.cursor.y + amount]
                      /\ remaining_height(after).val = remaining_height(before).val - amount
               /\ t.layout = "HorizontalRev" =>
                      /\ cursor = [x |-> t.cursor.x - amount, y |-> t.cursor.y]
                      /\ remaining_width(after).val = remaining_width(before).val - amount
               /\ t.layout = "VerticalRev" =>
                      /\ cursor = [x |-> t.cursor.x, y |-> t.cursor.y - amount]
                      /\ remaining_height(after).val = remaining_height(before).val - amount

\* space was called with a positive amount on a VerticalRev group, nested and
\* with a cursor that had moved on both axes, and took its cursor further up.
C16_Witness ==
    /\ Len(hist) >= 4
    /\ Op(Len(hist)) = "space"
    /\ hist[Len(hist)].ok
    /\ hist[Len(hist)].call.amount > 0
    /\ Len(stack) = 2
    /\ Last(stack).layout = "VerticalRev"
    /\ Last(BeforeCall(Len(hist))).cursor.x # 0
    /\ Last(BeforeCall(Len(hist))).cursor.y # 0
    /\ Last(stack).cursor.y < Last(BeforeCall(Len(hist))).cursor.y

(* C17.  On a non-empty stack remaining_size(), remaining_width() and     *)
(* remaining_height() return normally, leave the stack as it was, and      *)
(* return, for the top group of size (w, h) and cursor (cx, cy):           *)
(*   Freeform       (0, 0)             0         0                         *)
(*   Horizontal     (w - cx, h - cy)   w - cx    h                         *)
(*   Vertical       (w - cx, h - cy)   w         h - cy                    *)
(*   HorizontalRev  (w + cx, h + cy)   w + cx    h                         *)
(*   VerticalRev    (w + cx, h + cy)   w         h + cy                    *)
C17_RemainingQueries ==
    \A i \in Made :
        ( /\ Op(i) \in {"remaining_size", "remaining_width", "remaining_height"}
          /\ Len(BeforeCall(i)) >= 1 )
        => LET t == Last(BeforeCall(i))
               w == t.rect.size.x
               h == t.rect.size.y
               cx == t.cursor.x
               cy == t.cursor.y
               expected ==
                   CASE t.layout = "Freeform" -> <<[x |-> 0, y |-> 0], 0, 0>>
                     [] t.layout = "Horizontal" -> <<[x |-> w - cx, y |-> h - cy], w - cx, h>>
                     [] t.layout = "Vertical" -> <<[x |-> w - cx, y |-> h - cy], w, h - cy>>
                     [] t.layout = "HorizontalRev" -> <<[x |-> w + cx, y |-> h + cy], w + cx, h>>
                     [] t.layout = "VerticalRev" -> <<[x |-> w + cx, y |-> h + cy], w, h + cy>>
           IN  /\ hist[i].ok
               /\ AfterCall(i) = BeforeCall(i)
               /\ Op(i) = "remaining_size" => hist[i].val = expected[1]
               /\ Op(i) = "remaining_width" => hist[i].val = expected[2]
               /\ Op(i) = "remaining_height" => hist[i].val = expected[3]

\* remaining_size() was read on a Horizontal group, nested and with a cursor
\* that had moved on both axes, and differs from the size on both axes.
C17_Witness ==
    /\ Len(hist) >= 4
    /\ Op(Len(hist)) = "remaining_size"
    /\ hist[Len(hist)].ok
    /\ Len(stack) = 2
    /\ Last(stack).layout = "Horizontal"
    /\ hist[Len(hist)].val.x # Last(stack).rect.size.x
    /\ hist[Len(hist)].val.y # Last(stack).rect.size.y

(* C18.  pad(padding) on a non-empty stack returns normally, whatever the  *)
(* size of the top group.  It moves the top group's position by (left,     *)
(* top) and takes (left + right, top + bottom) off its size, without       *)
(* clamping: the size goes below zero when the padding is larger than the  *)
(* rectangle.  The rectangle's right edge moves in by right and its bottom *)
(* edge by bottom.  The top group's cursor, layout and line cap and every  *)
(* other group are unchanged.                                              *)
C18_PadShrinks ==
    \A i \in Made :
        (Op(i) = "pad" /\ Len(BeforeCall(i)) >= 1) =>
            LET before == BeforeCall(i)
                after == AfterCall(i)
                t == Last(before)
                p == hist[i].call.padding
                r == Last(after).rect
            IN  /\ hist[i].ok
                /\ Len(after) = Len(before)
                /\ \A k \in 1..(Len(before) - 1) : after[k] = before[k]
                /\ Last(after).cursor = t.cursor
                /\ Last(after).layout = t.layout
                /\ Last(after).line_cap = t.line_cap
                /\ r.position.x = t.rect.position.x + p.left
                /\ r.position.y = t.rect.position.y + p.top
                /\ r.size.x = t.rect.size.x - p.left - p.right
                /\ r.size.y = t.rect.size.y - p.top - p.bottom
                /\ r.position.x + r.size.x = t.rect.position.x + t.rect.size.x - p.right
                /\ r.position.y + r.size.y = t.rect.position.y + t.rect.size.y - p.bottom

\* pad was called on a nested group smaller than the padding on both axes,
\* and left it a size below zero on both.
C18_Witness ==
    /\ budget = 0
    /\ Len(hist) >= 4
    /\ Op(Len(hist)) = "pad"
    /\ hist[Len(hist)].ok
    /\ Len(stack) = 2
    /\ Last(BeforeCall(Len(hist))).rect.size.x > 0
    /\ Last(BeforeCall(Len(hist))).rect.size.y > 0
    /\ Last(stack).rect.size.x < 0
    /\ Last(stack).rect.size.y < 0

(* C19.  The line cap goes down the stack and never up.  (a) A group that  *)
(* push appends has the line cap that the group below it has at that       *)
(* moment.  (b) set_line_cap on a non-empty stack returns normally and     *)
(* changes the line cap of the top group, and nothing else.  (c) From a    *)
(* state with d groups on the stack, over calls that all return normally   *)
(* and that either push or are made on a stack deeper than d (on a child   *)
(* of the d-th group or on a descendant of it: pushes, pops and            *)
(* set_line_cap calls), once the stack is d deep again the d-th group and  *)
(* every group below it have the line cap they had.                        *)
C19_LineCapInherited ==
    /\ \A i \in Made :
           (Op(i) = "push" /\ hist[i].ok) =>
               Last(AfterCall(i)).line_cap = Last(BeforeCall(i)).line_cap
    /\ \A i \in Made :
           (Op(i) = "set_line_cap" /\ Len(BeforeCall(i)) >= 1) =>
               /\ hist[i].ok
               /\ Len(AfterCall(i)) = Len(BeforeCall(i))
               /\ \A k \in 1..(Len(BeforeCall(i)) - 1) : AfterCall(i)[k] = BeforeCall(i)[k]
               /\ Last(AfterCall(i)).line_cap = hist[i].call.new_line_cap
               /\ Last(AfterCall(i)).rect = Last(BeforeCall(i)).rect
               /\ Last(AfterCall(i)).cursor = Last(BeforeCall(i)).cursor
               /\ Last(AfterCall(i)).layout = Last(BeforeCall(i)).layout
    /\ \A i \in 1..Len(hist) : \A j \in i..Len(hist) :
           LET d == Len(hist[i].stack)
           IN  ( /\ d >= 1
                 /\ Len(hist[j].stack) = d
                 /\ \A k \in (i + 1)..j :
                        /\ hist[k].ok
                        /\ Op(k) = "push" \/ Len(BeforeCall(k)) > d )
               => \A e \in 1..d : hist[j].stack[e].line_cap = hist[i].stack[e].line_cap

\* In a root group whose line cap had been set to Square, a child and a
\* grandchild were pushed, the grandchild's line cap was set to Round, and
\* both were popped.
C19_Witness ==
    \E i \in 1..Len(hist) :
        /\ Len(hist) = i + 5
        /\ Len(hist[i].stack) = 1
        /\ hist[i].stack[1].line_cap = "Square"
        /\ Then(i, <<"push", "push", "set_line_cap", "pop", "pop">>)
        /\ hist[i + 2].stack[3].line_cap = "Square"
        /\ hist[i + 3].stack[3].line_cap = "Round"
        /\ hist[i + 3].stack[2].line_cap = "Square"
        /\ Len(stack) = 1

(* C20.  The frame root((800,600), Vertical); push((800,50), Horizontal);  *)
(* pop; push((800,550), Vertical); push((800,20), any layout); pop; fit    *)
(* goes, call by call, as far as it has got: every call returns normally;  *)
(* the first push gives a group with rectangle {(0,0), (800,50)}; the pop  *)
(* after it leaves the root group's cursor at (0,50); the second push      *)
(* gives a group at position (0,50); after the (800,20) group has been     *)
(* pushed into it and popped, fit leaves its size at (800,20).             *)
(* The numbers below are half pixels: 1600 stands for 800 pixels.          *)
C20_Walkthrough ==
    LET n == Len(hist)
        call1 == n >= 2 /\ hist[2].call = C_root([x |-> 1600, y |-> 1200], "Vertical")
        call2 == call1 /\ n >= 3 /\ hist[3].call = C_push([x |-> 1600, y |-> 100], "Horizontal")
        call3 == call2 /\ n >= 4 /\ hist[4].call = C_pop
        call4 == call3 /\ n >= 5 /\ hist[5].call = C_push([x |-> 1600, y |-> 1100], "Vertical")
        call5 == call4 /\ n >= 6 /\ \E layout \in Layout :
                                         hist[6].call = C_push([x |-> 1600, y |-> 40], layout)
        call6 == call5 /\ n >= 7 /\ hist[7].call = C_pop
        call7 == call6 /\ n >= 8 /\ hist[8].call = C_fit
    IN  /\ call1 => hist[2].ok
        /\ call2 =>
               /\ hist[3].ok
               /\ Len(hist[3].stack) = 2
               /\ hist[3].stack[2].rect =
                      [position |-> [x |-> 0, y |-> 0], size |-> [x |-> 1600, y |-> 100]]
        /\ call3 =>
               /\ hist[4].ok
               /\ Len(hist[4].stack) = 1
               /\ hist[4].stack[1].cursor = [x |-> 0, y |-> 100]
        /\ call4 =>
               /\ hist[5].ok
               /\ Len(hist[5].stack) = 2
               /\ hist[5].stack[2].rect.position = [x |-> 0, y |-> 100]
        /\ call5 => hist[6].ok /\ Len(hist[6].stack) = 3
        /\ call6 => hist[7].ok /\ Len(hist[7].stack) = 2
        /\ call7 =>
               /\ hist[8].ok
               /\ Len(hist[8].stack) = 2
               /\ hist[8].stack[2].rect.size = [x |-> 1600, y |-> 40]

\* The frame has been walked to its end, with a HorizontalRev item, and the
\* panel has come down from 550 pixels of height to 20.
C20_Witness ==
    /\ Len(hist) = 8
    /\ hist[2].call = C_root([x |-> 1600, y |-> 1200], "Vertical")
    /\ hist[3].call = C_push([x |-> 1600, y |-> 100], "Horizontal")
    /\ hist[4].call = C_pop
    /\ hist[5].call = C_push([x |-> 1600, y |-> 1100], "Vertical")
    /\ hist[6].call = C_push([x |-> 1600, y |-> 40], "HorizontalRev")
    /\ hist[7].call = C_pop
    /\ hist[8].call = C_fit
    /\ hist[8].ok
    /\ hist[5].stack[2].rect.size.y = 1100
    /\ Last(stack).rect.size.y = 40

(* C21.  A call of draw on a non-empty stack does, in this order: renderer *)
(* push; renderer translate by the position the top group has when draw is *)
(* called; the callback; renderer pop.  So at the start of the callback    *)
(* the renderer has saved the transform it had before the call, and its    *)
(* translation is that transform moved by the group's position; when the   *)
(* callback has returned the renderer is what one pop makes of the         *)
(* renderer the callback left.  When the callback has popped every push of *)
(* its own, the renderer after draw (the depth of its saved transforms,    *)
(* its translation) is the renderer before draw.  Neither half of draw     *)
(* changes the group stack.                                                *)
C21_DrawBrackets ==
    /\ \A i \in Made :
           (Op(i) \in {"draw", "draw_return"} /\ Len(BeforeCall(i)) >= 1) =>
               hist[i].ok /\ AfterCall(i) = BeforeCall(i)
    /\ \A k \in 1..Len(draws) :
           LET d == draws[k]
               position == Last(BeforeCall(d.at)).rect.position
           IN  /\ Op(d.at) = "draw"
               /\ d.translation = position
               /\ d.entered.saved = d.before.saved \o <<d.before.matrix>>
               /\ d.entered.matrix = [x |-> d.before.matrix.x + position.x,
                                      y |-> d.before.matrix.y + position.y]
               /\ d.status = "returned" =>
                      /\ Len(d.after.saved) = Len(d.ended.saved) - 1
                      /\ d.after.saved = SubSeq(d.ended.saved, 1, Len(d.ended.saved) - 1)
                      /\ d.after.matrix = d.ended.saved[Len(d.ended.saved)]
               /\ (d.status = "returned" /\ Len(d.ended.saved) = Len(d.entered.saved)) =>
                      d.after = d.before

\* draw was called on a group away from the origin; its callback pushed the
\* renderer's transform, translated it and popped it, and returned.
C21_Witness ==
    /\ Len(hist) >= 6
    /\ Len(draws) = 1
    /\ draws[1].status = "returned"
    /\ draws[1].translation.x # 0
    /\ draws[1].translation.y # 0
    /\ Op(Len(hist) - 4) = "draw"
    /\ Op(Len(hist) - 3) = "render_push"
    /\ Op(Len(hist) - 2) = "render_translate"
    /\ Op(Len(hist) - 1) = "render_pop"
    /\ Op(Len(hist)) = "draw_return"
    /\ renderer = NewRenderer

(* C22, as claimed.  However draw is left, by the return of its callback   *)
(* or by a panic inside it (fit on a reversed group, the pop of the root   *)
(* group), the renderer push that draw made is matched by a renderer pop:  *)
(* when draw is left the renderer holds one saved transform fewer than     *)
(* when the callback ended.                                                *)
C22_Claimed ==
    \A k \in 1..Len(draws) :
        draws[k].status \in {"returned", "unwound"} =>
            Len(draws[k].after.saved) = Len(draws[k].ended.saved) - 1

(* C23, as claimed.  While the callback of a call of draw is running, the  *)
(* calls of draw made inside it having returned and its own renderer       *)
(* pushes having been popped, the renderer's translation is the absolute   *)
(* position of the group draw was called on; this for every call of draw,  *)
(* one made on a child group inside the callback of another included.      *)
C23_Claimed ==
    (OpenDraws(draws) # {} /\ Last(hist).ok) =>
        LET d == draws[Innermost(draws)]
        IN  Len(renderer.saved) = Len(d.entered.saved) =>
                renderer.matrix = Last(BeforeCall(d.at)).rect.position

\* C24: a group item of build! calls push with its arguments, then runs its
\* body, then calls pop: while the bodies of n nested group items are running
\* the stack is n deeper than where the block started, every group item that
\* is over was a push, then calls on a stack at least one deeper than before
\* the push, then a pop that brought the depth back to what it was before the
\* push, and when no group item is open the depth is the one the block
\* started with.
C24_BuildGroup ==
    /\ \A j \in 1..Len(build.open) :
            /\ Op(build.open[j]) = "push"
            /\ hist[build.open[j]].ok =>
                    Len(AfterCall(build.open[j])) = Len(hist[build.base].stack) + j
    /\ Last(hist).ok => Len(stack) = Len(hist[build.base].stack) + Len(build.open)
    /\ \A j \in 1..Len(build.done) :
            LET g == build.done[j]
            IN  /\ g.from < g.to
                /\ Op(g.from) = "push"
                /\ Op(g.to) = "pop"
                /\ Len(AfterCall(g.from)) = Len(BeforeCall(g.from)) + 1
                /\ \A k \in (g.from + 1)..g.to :
                        Len(BeforeCall(k)) >= Len(BeforeCall(g.from)) + 1
                /\ hist[g.to].ok => Len(AfterCall(g.to)) = Len(BeforeCall(g.from))

\* C24 witness: a group item nested in a group item, with a statement in the
\* inner body, both over, back at the depth of the start.
C24_Witness ==
    /\ Last(hist).ok
    /\ build.open = <<>>
    /\ Len(build.done) = 2
    /\ build.done[1].from > build.done[2].from
    /\ build.done[1].to < build.done[2].to
    /\ build.done[1].to > build.done[1].from + 1
    /\ Len(stack) = Len(hist[build.base].stack)

\* The calls made from call i on, in order.
CallsFrom(i) == [k \in 1..(Len(hist) - i + 1) |-> hist[i + k - 1].call]

\* C25: what a frame does is decided by its root call and the calls after it,
\* not by what the Ui held before: from any call of root on, whatever stack it
\* was made on, the stacks, the results and the panics are, call by call,
\* those of the same calls made on a new Ui, so that any two Uis given the
\* same root call and the same calls after it go the same way.
C25_FramesIndependent ==
    \A i \in Made :
        Op(i) = "root" =>
            LET there == Run(CallsFrom(i))
            IN  /\ Len(there) = 1 + Len(CallsFrom(i))
                /\ \A k \in 1..Len(CallsFrom(i)) : there[1 + k] = hist[i + k - 1]

\* C25 witness: root was called on a stack two deep, with a moved cursor
\* below, and a call after it panicked.
C25_Witness ==
    /\ Len(hist) >= 3
    /\ Op(Len(hist) - 1) = "root"
    /\ Len(BeforeCall(Len(hist) - 1)) = 2
    /\ BeforeCall(Len(hist) - 1)[1].cursor # vector(0, 0)
    /\ ~Last(hist).ok

\* The entries 1..n of the stacks s and t are the same.
SameUpTo(s, t, n) == \A k \in 1..n : s[k] = t[k]

\* C26: a call that returns changes the top of the stack only.  push adds one
\* entry above entries that stay as they were; pop removes one entry and, of
\* what remains, changes at most the cursor of the new top; set_cursor,
\* offset, space, pad, fit, align and set_line_cap keep the depth and every
\* entry below the top; the getters change nothing.
C26_OnlyTopMutated ==
    \A i \in Made :
        hist[i].ok =>
            LET s == BeforeCall(i)
                t == AfterCall(i)
            IN  /\ Op(i) = "push" => Len(t) = Len(s) + 1 /\ SameUpTo(s, t, Len(s))
                /\ Op(i) = "pop" =>
                        /\ Len(t) = Len(s) - 1
                        /\ SameUpTo(s, t, Len(t) - 1)
                        /\ Last(t) = [s[Len(t)] EXCEPT !.cursor = Last(t).cursor]
                /\ Op(i) \in {"set_cursor", "offset", "space", "pad", "fit", "align",
                              "set_line_cap"} =>
                        Len(t) = Len(s) /\ SameUpTo(s, t, Len(s) - 1)
                /\ Op(i) \in Getters => t = s

\* C26 witness: on a stack three deep with distinct groups, a call has
\* changed the top group and returned, where the top before it differed from
\* both groups below.
C26_Witness ==
    /\ Last(hist).ok
    /\ Len(hist) >= 3
    /\ Op(Len(hist)) \in {"pad", "fit", "align", "space", "offset"}
    /\ Len(stack) = 3
    /\ stack[3] # BeforeCall(Len(hist))[3]
    /\ stack[1] # stack[2]
    /\ budget = 0

\* C27: a call of fit that returns gives the top group its cursor as size on
\* both axes under Freeform, cursor.x as width and the height it had under
\* Horizontal, cursor.y as height and the width it had under Vertical; the
\* position, cursor, layout and line cap of the group stay as they were; and
\* a call of fit right after a call of fit changes nothing.
C27_Fit ==
    \A i \in Made :
        (Op(i) = "fit" /\ hist[i].ok) =>
            LET g == Last(BeforeCall(i))
                h == Last(AfterCall(i))
            IN  /\ g.layout = "Freeform" => h.rect.size = g.cursor
                /\ g.layout = "Horizontal" =>
                        h.rect.size = vector(g.cursor.x, g.rect.size.y)
                /\ g.layout = "Vertical" =>
                        h.rect.size = vector(g.rect.size.x, g.cursor.y)
                /\ h.rect.position = g.rect.position
                /\ h.cursor = g.cursor
                /\ h.layout = g.layout
                /\ h.line_cap = g.line_cap
                /\ (i > 2 /\ Op(i - 1) = "fit") => AfterCall(i) = BeforeCall(i)

\* C27 witness: fit was called twice in a row on a Horizontal group away from
\* the origin whose cursor differed from its size on both axes.
C27_Witness ==
    /\ Len(hist) >= 4
    /\ Last(hist).ok
    /\ Op(Len(hist)) = "fit"
    /\ Op(Len(hist) - 1) = "fit"
    /\ LET g == Last(BeforeCall(Len(hist) - 1))
       IN  /\ g.layout = "Horizontal"
           /\ g.rect.position # vector(0, 0)
           /\ g.cursor.x # g.rect.size.x
           /\ g.cursor.y # g.rect.size.y

\* The cursor of the group g is on the axis of its layout, on the side the
\* layout grows to.
Confined(g) ==
    CASE g.layout = "Freeform" -> g.cursor = vector(0, 0)
      [] g.layout = "Horizontal" -> g.cursor.x >= 0 /\ g.cursor.y = 0
      [] g.layout = "Vertical" -> g.cursor.x = 0 /\ g.cursor.y >= 0
      [] g.layout = "HorizontalRev" -> g.cursor.x <= 0 /\ g.cursor.y = 0
      [] g.layout = "VerticalRev" -> g.cursor.x = 0 /\ g.cursor.y <= 0

\* C28: as long as set_cursor, offset and pad are not called and space is not
\* given a negative amount, every group on the stack has its cursor on the
\* axis of its layout, on the side the layout grows to: at (0,0) under
\* Freeform, x >= 0 and y = 0 under Horizontal, x = 0 and y >= 0 under
\* Vertical, x <= 0 and y = 0 under HorizontalRev, x = 0 and y <= 0 under
\* VerticalRev.
C28_CursorConfined == \A k \in 1..Len(stack) : Confined(stack[k])

\* C28 witness: a child that had been spaced and fitted was popped into a
\* reversed parent, whose cursor went below zero.
C28_Witness ==
    /\ Len(hist) >= 5
    /\ Last(hist).ok
    /\ Op(Len(hist)) = "pop"
    /\ Op(Len(hist) - 1) = "fit"
    /\ Op(Len(hist) - 2) = "space"
    /\ Last(stack).layout \in {"HorizontalRev", "VerticalRev"}
    /\ Last(stack).cursor.x + Last(stack).cursor.y < 0

\* How far a group of the given layout moves its cursor for a child w wide
\* and h high.
Along(layout, w, h) ==
    CASE layout = "Freeform" -> vector(0, 0)
      [] layout = "Horizontal" -> vector(w, 0)
      [] layout = "Vertical" -> vector(0, h)
      [] layout = "HorizontalRev" -> vector(0 - w, 0)
      [] layout = "VerticalRev" -> vector(0, 0 - h)

\* How far call i, a pop, moved the cursor of the group below the top.
Advance(i) == VSub(Last(AfterCall(i)).cursor, BeforeCall(i)[Len(BeforeCall(i)) - 1].cursor)

\* C29: a pop that returns moves the parent's cursor by the size the child has
\* when it is popped.  Right after push(s) and pad(p) that is s.x - (p.left +
\* p.right) wide and s.y - (p.top + p.bottom) high; right after a fit it is
\* what fit took from the child's cursor.
C29_PopUsesCurrentSize ==
    \A i \in Made :
        (Op(i) = "pop" /\ hist[i].ok) =>
            LET child == Last(BeforeCall(i))
                parent == BeforeCall(i)[Len(BeforeCall(i)) - 1]
            IN  /\ Advance(i) = Along(parent.layout, child.rect.size.x, child.rect.size.y)
                /\ (i > 3 /\ Op(i - 1) = "pad" /\ Op(i - 2) = "push") =>
                        LET s == hist[i - 2].call.size
                            p == hist[i - 1].call.padding
                        IN  Advance(i) = Along(parent.layout, s.x - (p.left + p.right),
                                               s.y - (p.top + p.bottom))
                /\ (i > 2 /\ Op(i - 1) = "fit") =>
                        LET before == Last(BeforeCall(i - 1))
                        IN  Advance(i) =
                                Along(parent.layout,
                                      IF child.layout = "Vertical"
                                      THEN before.rect.size.x ELSE before.cursor.x,
                                      IF child.layout = "Horizontal"
                                      THEN before.rect.size.y ELSE before.cursor.y)

\* C29 witness: a child pushed into a Horizontal parent was padded and popped,
\* and the parent's cursor moved by less than the width given to push.
C29_Witness ==
    /\ Len(hist) >= 4
    /\ Last(hist).ok
    /\ Op(Len(hist)) = "pop"
    /\ Op(Len(hist) - 1) = "pad"
    /\ Op(Len(hist) - 2) = "push"
    /\ Last(stack).layout = "Horizontal"
    /\ Advance(Len(hist)).x > 0
    /\ Advance(Len(hist)).x < hist[Len(hist) - 2].call.size.x

\* The rectangle b starts where the rectangle a ends, for the given layout.
Abuts(layout, a, b) ==
    CASE layout = "Horizontal" -> left(b) = right(a)
      [] layout = "Vertical" -> top(b) = bottom(a)
      [] layout = "HorizontalRev" -> right(b) = left(a)
      [] layout = "VerticalRev" -> bottom(b) = top(a)
      [] layout = "Freeform" -> TRUE

\* The rectangle b starts at the edge of the rectangle a that the given
\* layout starts from.
AtStart(layout, a, b) ==
    CASE layout = "Horizontal" -> left(b) = left(a)
      [] layout = "Vertical" -> top(b) = top(a)
      [] layout = "HorizontalRev" -> right(b) = right(a)
      [] layout = "VerticalRev" -> bottom(b) = bottom(a)
      [] layout = "Freeform" -> TRUE

\* C30: a child pushed right after the pop of the child before it starts
\* where that child ends: left edge on right edge in a Horizontal parent, top
\* on bottom in a Vertical one, right edge on left edge in a HorizontalRev
\* one, bottom on top in a VerticalRev one; and a child pushed into a group
\* that root or push has just made starts at the parent's left, top, right
\* or bottom edge.
C30_SiblingsAbut ==
    \A i \in Made :
        (Op(i) = "push" /\ hist[i].ok) =>
            LET parent == Last(BeforeCall(i))
                child == Last(AfterCall(i))
            IN  /\ (i > 3 /\ Op(i - 1) = "pop" /\ Op(i - 2) = "push") =>
                        Abuts(parent.layout, Last(AfterCall(i - 2)).rect, child.rect)
                /\ Op(i - 1) \in {"root", "push"} =>
                        AtStart(parent.layout, parent.rect, child.rect)

\* C30 witness: three children of different widths were pushed and popped one
\* after another into a new HorizontalRev group away from the origin.
C30_Witness ==
    /\ Len(hist) >= 8
    /\ Last(hist).ok
    /\ Op(Len(hist)) = "pop"
    /\ Op(Len(hist) - 1) = "push"
    /\ Op(Len(hist) - 2) = "pop"
    /\ Op(Len(hist) - 3) = "push"
    /\ Op(Len(hist) - 4) = "pop"
    /\ Op(Len(hist) - 5) = "push"
    /\ Op(Len(hist) - 6) = "push"
    /\ Last(stack).layout = "HorizontalRev"
    /\ Last(stack).rect.position # vector(0, 0)
    /\ hist[Len(hist) - 1].call.size # hist[Len(hist) - 3].call.size

\* The reversed layout of a forward layout.
Reversed(layout) ==
    CASE layout = "Horizontal" -> "HorizontalRev"
      [] layout = "Vertical" -> "VerticalRev"

\* The calls made so far, with the layout given by call p reversed.
CallsReversedAt(p) ==
    [k \in 1..(Len(hist) - 1) |->
        IF k + 1 = p
        THEN [hist[p].call EXCEPT !.layout = Reversed(@)]
        ELSE hist[k + 1].call]

\* Call p made a group of a forward layout, and since then only push, pop and
\* space were called and the group was not popped.
ParentSince(p) ==
    /\ Op(p) \in {"root", "push"}
    /\ hist[p].ok
    /\ hist[p].call.layout \in {"Horizontal", "Vertical"}
    /\ \A k \in (p + 1)..Len(hist) :
            /\ Op(k) \in {"push", "pop", "space"}
            /\ Len(AfterCall(k)) >= Len(AfterCall(p))

\* The coordinate of the vector v on the axis of the layout.
OnAxis(layout, v) == IF layout \in {"Horizontal", "HorizontalRev"} THEN v.x ELSE v.y

\* C31: the same children (push then pop) and spaces in a Horizontal parent
\* and in a HorizontalRev parent of the same rectangle go the same way,
\* mirrored: the same calls return and the same calls panic, whenever the
\* parent is on top its cursor.x in one is minus its cursor.x in the other
\* and remaining_width is the same in both, and every child pushed into the
\* parent has its right edge as far from the parent's right edge in the
\* reversed parent as its left edge is from the parent's left edge in the
\* forward one, on the other side.  The same for Vertical and VerticalRev on
\* y, with remaining_height, top and bottom.
C31_ReversedMirrors ==
    \A p \in Made :
        ParentSince(p) =>
            LET rev == Run(CallsReversedAt(p))
                depth == Len(AfterCall(p))
                layout == hist[p].call.layout
            IN  /\ Len(rev) = Len(hist)
                /\ rev[p].stack[depth].rect = AfterCall(p)[depth].rect
                /\ \A k \in p..Len(hist) :
                        /\ rev[k].ok = hist[k].ok
                        /\ Len(rev[k].stack) = Len(AfterCall(k))
                        /\ (hist[k].ok /\ Len(AfterCall(k)) = depth) =>
                                LET f == Last(AfterCall(k))
                                    r == Last(rev[k].stack)
                                IN  /\ OnAxis(layout, r.cursor) = 0 - OnAxis(layout, f.cursor)
                                    /\ remaining_width_of(r) = remaining_width_of(f)
                                    /\ remaining_height_of(r) = remaining_height_of(f)
                        /\ (k > p /\ hist[k].ok /\ Op(k) = "push" /\ Len(BeforeCall(k)) = depth) =>
                                LET parent == Last(BeforeCall(k)).rect
                                    f == Last(AfterCall(k)).rect
                                    r == Last(rev[k].stack).rect
                                IN  IF layout = "Horizontal"
                                    THEN right(r) - right(parent) = 0 - (left(f) - left(parent))
                                    ELSE bottom(r) - bottom(parent) = 0 - (top(f) - top(parent))

\* C31 witness: in a Horizontal parent away from the origin, after a space
\* and one more call, a child was pushed away from the parent's left edge.
C31_Witness ==
    /\ Len(hist) >= 7
    /\ Last(hist).ok
    /\ ParentSince(Len(hist) - 3)
    /\ hist[Len(hist) - 3].call.layout = "Horizontal"
    /\ AfterCall(Len(hist) - 3)[Len(AfterCall(Len(hist) - 3))].rect.position # vector(0, 0)
    /\ Op(Len(hist)) = "push"
    /\ Len(stack) = Len(AfterCall(Len(hist) - 3)) + 1
    /\ \E k \in (Len(hist) - 2)..(Len(hist) - 1) : Op(k) = "space"
    /\ left(Last(stack).rect) # left(stack[Len(stack) - 1].rect)

C33_RemainingAgree ==
    Len(stack) > 0 =>
        remaining_size(stack).val =
            vector(remaining_width(stack).val, remaining_height(stack).val)

\* C33 witness: a padded child was popped into a Vertical group, whose cursor
\* then was not at (0,0), and the group was padded.
C33_Witness ==
    /\ Len(hist) >= 5
    /\ Last(hist).ok
    /\ Op(Len(hist)) = "pad"
    /\ Op(Len(hist) - 1) = "pop"
    /\ Op(Len(hist) - 2) = "pad"
    /\ Last(stack).layout = "Vertical"
    /\ Last(stack).cursor.y # 0
    /\ remaining_height(stack).val # Last(stack).rect.size.y
====
